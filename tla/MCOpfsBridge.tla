---------------------------- MODULE MCOpfsBridge -----------------------------
(* Instances of OpfsBridge for TLC. *)
EXTENDS OpfsBridge

\* The calls whose timeout the code remembers.
Remembered == {<<"bridge", "call">>, <<"bridge", "read">>}

\* A read of a file that takes long, by the synchronous file system.
SlowRead == {<<"filesystem", "read">>}

=============================================================================
