-------------------------- MODULE MCBlockDownload --------------------------
(***************************************************************************)
(* A reliable peer r and another one, s, and six blocks: g <- b1 <- b2 <-  *)
(* b3, and b1 <- x <- y, of which x is invalid.                            *)
(***************************************************************************)
EXTENDS BlockDownload

MCParent == [b1 |-> "g", b2 |-> "b1", b3 |-> "b2", x |-> "b1", y |-> "x"]
MCWork == [g |-> 0, b1 |-> 1, b2 |-> 2, b3 |-> 4, x |-> 2, y |-> 3]

\* s keeps to the protocol, but may not answer.
Plain ==
    [recent |-> FALSE, whitelisted |-> {}, offer |-> "b3", headers |-> {"b3"},
     hashes |-> {}, unasked |-> {}, compact |-> {}, submitted |-> {}]

MCSettings ==
    {[Plain EXCEPT !.headers = {"b3", "x"}],
     [Plain EXCEPT !.whitelisted = {"s"}, !.hashes = {"b3"}],
     [Plain EXCEPT !.submitted = {"b1"}],
     [Plain EXCEPT !.offer = "b2"],
     [Plain EXCEPT !.recent = TRUE, !.offer = "b1", !.headers = {}],
     [Plain EXCEPT !.recent = TRUE, !.headers = {"y"}, !.submitted = {"x"}],
     [Plain EXCEPT !.recent = TRUE, !.unasked = {"b2"}],
     [Plain EXCEPT !.recent = TRUE, !.compact = {"b2"}],
     [Plain EXCEPT !.recent = TRUE, !.headers = {}, !.compact = {"b3"}],
     [Plain EXCEPT !.recent = TRUE, !.headers = {"x"}, !.compact = {"x", "y"}]}
=============================================================================
