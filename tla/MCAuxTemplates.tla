--------------------------- MODULE MCAuxTemplates ---------------------------
(***************************************************************************)
(* Deployments for AuxTemplates: which thread calls what.                  *)
(***************************************************************************)
EXTENDS AuxTemplates, TLC

CONSTANTS t1, t2        \* threads

\* RPC threads that serve getauxblock, with and without arguments.
Locked == [calls |-> [t \in Thread |-> {"getauxblock", "submitauxblock"}],
           inTurn |-> FALSE, fails |-> FALSE]

\* -rpcthreads=1, for createauxblock and submitauxblock.
OneThread == [calls |-> (t1 :> {"createauxblock", "submitauxblock"}) @@ (t2 :> {}),
              inTurn |-> TRUE, fails |-> TRUE]

\* getAuxBlockThread and submitAuxBlockThread, as AppInit of pqcoind starts them.
Daemon(inTurn) == [calls |-> (t1 :> {"createauxblock"}) @@ (t2 :> {"SubmitAuxBlock"}),
                   inTurn |-> inTurn, fails |-> TRUE]

\* The lock is taken, or nothing runs in parallel.
Orderly == {Locked, OneThread, Daemon(TRUE)}
Parallel == {Daemon(FALSE)}

\* One caller that uses both ways to get a template.
Mixed == {[OneThread EXCEPT !.calls[t1] = {"getauxblock", "createauxblock"}, !.fails = FALSE]}

\* getauxblock when a template cannot be made.
Failing == {[Locked EXCEPT !.fails = TRUE]}
=============================================================================
