------------------------------- MODULE Names -------------------------------
(***************************************************************************)
(* The name server: one name per task, looked up by task id order.  The    *)
(* server does nothing between the Receive and the Reply of a request, and *)
(* the caller sleeps meanwhile, so a request is one step of the caller.    *)
(***************************************************************************)
EXTENDS Integers

CONSTANTS
  Tasks,     \* task ids
  NoName     \* a name nobody asks for: an entry of pid_names never written

ASSUME NamesAssumption == Tasks \subseteq Nat

VARIABLE pid_names   \* the name of each task

NamesInit == pid_names = [t \in Tasks |-> NoName]

\* RegisterAs: the caller's entry is overwritten, whoever else has the name.
RegisterAs(t, name) == pid_names' = [pid_names EXCEPT ![t] = name]

\* WhoIs: the lowest task id with that name, -1 if there is none.
WhoIs(name) ==
  LET named == {t \in Tasks : pid_names[t] = name}
  IN IF named = {} THEN -1 ELSE CHOOSE t \in named : \A u \in named : t <= u

=============================================================================
