-------------------------- MODULE MCPackageStore --------------------------
(* Two extensions, the name of one of which, "woki.hello.pro", begins with   *)
(* that of the other, "woki.hello", and a dot.                               *)
EXTENDS PackageStore

CONSTANTS hello, pro

Related == {<<hello, hello>>, <<pro, pro>>, <<"archive", "archive">>, <<hello, pro>>}
=============================================================================
