----------------------------- MODULE JuzRegister -----------------------------
(***************************************************************************)
(* What a khatmil campaign promises about its juz, without requests,       *)
(* groups and positions: a register of readings, each of one juz by one    *)
(* participant for good, of which at most one per juz is active.  A        *)
(* reading that was put back may be taken up again by its reader while     *)
(* nobody else has the juz; one that is finished is never put back.        *)
(* Khatmil implements this specification.                                  *)
(***************************************************************************)
CONSTANTS
    Users,           \* santri
    Rows,            \* readings the register has room for
    Juz,             \* numbers of the juz
    Nobody

VARIABLES
    members,         \* santri who take part
    reading          \* state, reader and juz of each reading

vars == <<members, reading>>

Blank == [state |-> "NONE", user |-> Nobody, juz |-> 0]

Init ==
    /\ members = {}
    /\ reading = [r \in Rows |-> Blank]

\* No reading other than r has juz j.
Vacant(r, j) ==
    \A s \in Rows \ {r} : reading[s].state = "ACTIVE" => reading[s].juz # j

Become(r, state) == reading' = [reading EXCEPT ![r].state = state]

Join(u) ==
    /\ members' = members \cup {u}
    /\ UNCHANGED reading

Take(r, u, j) ==
    /\ reading[r] = Blank
    /\ u \in members
    /\ Vacant(r, j)
    /\ reading' = [reading EXCEPT ![r] = [state |-> "ACTIVE", user |-> u, juz |-> j]]
    /\ UNCHANGED members

TakeUp(r) ==
    /\ reading[r].state \in {"CANCELLED", "COMPLETED"}
    /\ Vacant(r, reading[r].juz)
    /\ Become(r, "ACTIVE")
    /\ UNCHANGED members

PutBack(r) ==
    /\ reading[r].state = "ACTIVE"
    /\ Become(r, "CANCELLED")
    /\ UNCHANGED members

\* Also a reading that was put back, whoever has the juz by then.
Finish(r) ==
    /\ reading[r].state \in {"ACTIVE", "CANCELLED"}
    /\ Become(r, "COMPLETED")
    /\ UNCHANGED members

Next ==
    \/ \E u \in Users : Join(u)
    \/ \E r \in Rows :
          \/ TakeUp(r) \/ PutBack(r) \/ Finish(r)
          \/ \E u \in Users, j \in Juz : Take(r, u, j)

Spec == Init /\ [][Next]_vars
=============================================================================
