------------------------------ MODULE MCMoveQueue ------------------------------
(* The installs and bounds of MoveQueue's runs. *)
EXTENDS MoveQueue

CONSTANTS h1, none, trash

\* One letter and a fault of any kind.
OneLetter ==
  [headers |-> <<h1>>, unsynced |-> {}, answers |-> {"named", "unnamed"}, lateGuards |-> FALSE,
   beside |-> {"sync", "reconcile", "expunge"}, asks |-> 2, elses |-> 0, arrivals |-> 0, faults |-> 1,
   faultKinds |-> {"fail", "lost", "late", "busy", "crash"}]

\* Another client moves or deletes the letter, and nothing fails.
Foreign == [OneLetter EXCEPT !.beside = {"sync", "reconcile"}, !.elses = 1, !.faults = 0]

\* Archived on Gmail, whose All Mail the panel does not keep.
Archive == [OneLetter EXCEPT !.unsynced = {trash}]

\* A letter with a Message-ID and one without, moved together; guards are registered late.
TwoLetters ==
  [OneLetter EXCEPT !.headers = <<h1, none>>, !.lateGuards = TRUE, !.beside = {"sync"},
                    !.faultKinds = {"lost"}]

\* A new letter arrives, and nothing fails.
Incoming == [OneLetter EXCEPT !.asks = 1, !.beside = {"sync", "reconcile"}, !.arrivals = 1, !.faults = 0]

\* A permanent delete fails, and so does the release of its claim.
Deletes == [OneLetter EXCEPT !.answers = {"named"}, !.beside = {"expunge"}, !.faults = 2, !.faultKinds = {"fail"}]

AllSettings == {OneLetter, Foreign, Archive, TwoLetters, Deletes, Incoming}

\* Nothing fails: a letter is moved on and back.
JustMoved == {[OneLetter EXCEPT !.asks = 3, !.faults = 0]}
===============================================================================
