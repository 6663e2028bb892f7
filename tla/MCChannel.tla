----------------------------- MODULE MCChannel ------------------------------
(* Instances of the channel for TLC: which threads share it and what each  *)
(* of them calls.                                                          *)
EXTENDS Channel, TLC

CONSTANTS p1, p2, c1, c2, closer

MCThread == {p1, p2, c1, c2, closer}

(* Threads that block, and one that may close: two producers and a         *)
(* consumer, and a producer and two consumers.                             *)
MCBlocking(producers, consumers) ==
  [t \in MCThread |-> CASE t \in producers -> {"send"}
                       [] t \in consumers -> {"recv"}
                       [] t = closer -> {"close"}
                       [] OTHER -> {}]

(* A thread that has the channel to itself and never blocks.               *)
MCAlone == [t \in MCThread |-> IF t = p1 THEN {"try_send", "try_recv", "close"} ELSE {}]

MCPrograms == {MCBlocking({p1, p2}, {c1}), MCBlocking({p1}, {c1, c2}), MCAlone}

(* A consumer and a thread that closes.                                    *)
MCEnd         == {c1, closer}
MCEndPrograms == {(c1 :> {"recv"}) @@ (closer :> {"close"})}

(* Every program of every instance shares the channel as it may be shared, *)
(* which is what the theorems of ChannelProofs assume.                     *)
ASSUME ProgramsAreDisciplined == Disciplined
=============================================================================
