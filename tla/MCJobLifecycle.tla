--------------------------- MODULE MCJobLifecycle ---------------------------
(* Small instances of JobLifecycle for TLC.  The boards of one provider are *)
(* in the files of two crawls, one of which also has a board of another     *)
(* provider; "telegram" is no provider at all.                              *)
EXTENDS JobLifecycle

MCBoards == {"lever/a", "lever/b", "ashby/c", "telegram"}
MCProviderOf ==
  [b \in MCBoards |-> CASE b \in {"lever/a", "lever/b"} -> "lever"
                        [] b = "ashby/c" -> "ashby"
                        [] b = "telegram" -> "telegram"]
MCRegistry == {"lever", "ashby"}

MCPostings == {"a", "b", "t"}
MCBoardOf == [a |-> "lever/a", b |-> "lever/b", t |-> "telegram"]
MCEntries == [c1 |-> {"lever/a"}, c2 |-> {"lever/b", "ashby/c"}]

ProbePostings == {"t"}
ProbeBoardOf == [t |-> "telegram"]
NoEntries == [c \in {} |-> {}]
==============================================================================
