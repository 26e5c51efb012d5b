------------------------------ MODULE VisitTalk ------------------------------
(***************************************************************************)
(* What santri and ustadz say to each other around a visit: the chat, the  *)
(* double-blind reviews, and the job that closes the review window         *)
(* (submit_review, review_status, messages_* of                            *)
(* src/modules/visits/service.rs, job_review_window of payments.rs).       *)
(*                                                                         *)
(* How a visit is paid and moved on is the matter of VisitSettlement; here *)
(* it starts CONFIRMED and goes the way to REVIEWED, or is canceled.       *)
(***************************************************************************)
EXTENDS VisitRequests

CONSTANTS
    Messages,        \* ids of visit_messages, in the order they are handed out
    PageSize,        \* messages of a page
    MaxFailures      \* bound on requests that die and runs of the job that fail

ASSUME VisitTalkAssumption ==
    /\ Messages \subseteq Nat /\ IsFiniteSet(Messages)
    /\ PageSize \in Nat \ {0} /\ MaxFailures \in Nat
    /\ Nothing \notin Visits

VARIABLES
    visit,           \* ustadz_visits.status
    expired,         \* visits whose review window is over
    review,          \* visit_reviews: one row for each direction
    closing,         \* visits job_review_window has selected and not yet closed
    peeked,          \* parties shown the other's rating before they had asked to review
    message,         \* visit_messages
    shown,           \* messages each party was shown
    req, failures

reviews == <<review, closing, peeked>>
chat    == <<message, shown>>
vars    == <<visit, expired, reviews, chat, req, failures>>

Party    == {"santri", "ustadz"}
Other(d) == IF d = "santri" THEN "ustadz" ELSE "santri"
Row      == {"none", "hidden", "revealed"}
Idle     == [at |-> "idle", visit |-> Nothing, party |-> "santri"]

TypeOK ==
    /\ visit    \in [Visits -> {"CONFIRMED", "IN_PROGRESS", "COMPLETED", "REVIEWED", "CANCELED"}]
    /\ expired  \subseteq Visits
    /\ review   \in [Visits \X Party -> Row]
    /\ closing  \subseteq Visits
    /\ peeked   \subseteq Visits \X Party
    /\ message  \in [Messages -> [visit : Visits \cup {Nothing}, party : Party, read : BOOLEAN]]
    /\ shown    \in [Party -> SUBSET Messages]
    /\ req      \in [Requests -> [at : {"idle", "insertReview", "countReviews", "reveal",
                                        "insertMessage", "markRead"},
                                  visit : Visits \cup {Nothing}, party : Party]]
    /\ failures \in 0..MaxFailures

Init ==
    /\ visit   = [v \in Visits |-> "CONFIRMED"]
    /\ expired = {}
    /\ review  = [r \in Visits \X Party |-> "none"]
    /\ closing = {} /\ peeked = {}
    /\ message = [m \in Messages |-> [visit |-> Nothing, party |-> "santri", read |-> FALSE]]
    /\ shown   = [d \in Party |-> {}]
    /\ req     = [p \in Requests |-> Idle]
    /\ failures = 0

At(p, step)        == req[p].at = step
Begin(p, step, v, d) == /\ req[p] = Idle
                        /\ req' = [req EXCEPT ![p] = [at |-> step, visit |-> v, party |-> d]]
Goto(p, step)      == req' = [req EXCEPT ![p].at = step]
End(p)             == req' = [req EXCEPT ![p] = Idle]

\* UPDATE visit_reviews SET revealed_at = now WHERE visit_id = v
RevealAll(v) ==
    review' = [r \in Visits \X Party |->
                 IF r[1] = v /\ review[r] = "hidden" THEN "revealed" ELSE review[r]]

\* UPDATE ustadz_visits SET status = 'REVIEWED' WHERE id = v AND status = 'COMPLETED'
MarkReviewed(v) == visit' = [visit EXCEPT ![v] = IF @ = "COMPLETED" THEN "REVIEWED" ELSE @]

-----------------------------------------------------------------------------
(* Faults the code could have *)

\* Reviews of a visit that is not COMPLETED any more are not revealed.
RevealIfOpen(p) ==
    /\ At(p, "reveal")
    /\ IF visit[req[p].visit] = "COMPLETED" THEN RevealAll(req[p].visit) ELSE UNCHANGED review
    /\ MarkReviewed(req[p].visit)
    /\ End(p)
    /\ UNCHANGED <<expired, closing, peeked, chat, failures>>

\* Who has not reviewed is shown what the other has written.
RevealedEarly(v, d) == review[<<v, d>>] \in {"none", "revealed"}

\* The window is closed for visits both have reviewed.
CloseReviewsBoth(v) ==
    /\ v \in closing
    /\ closing' = closing \ {v}
    /\ IF \A d \in Party : review[<<v, d>>] # "none"
       THEN RevealAll(v) /\ MarkReviewed(v) ELSE UNCHANGED <<review, visit>>
    /\ UNCHANGED <<expired, peeked, chat, req, failures>>

-----------------------------------------------------------------------------
(* The visit, as far as it matters here *)

\* confirmed -> started -> completed, by the ustadz or an admin.
Advance(v, new) ==
    /\ \/ visit[v] = "CONFIRMED"   /\ new \in {"IN_PROGRESS", "COMPLETED"}
       \/ visit[v] = "IN_PROGRESS" /\ new = "COMPLETED"
    /\ visit' = [visit EXCEPT ![v] = new]
    /\ UNCHANGED <<expired, reviews, chat, req, failures>>

\* An admin's cancel moves the visit whatever its status, see VisitSettlement.
Cancel(v) ==
    /\ visit[v] # "CANCELED"
    /\ visit' = [visit EXCEPT ![v] = "CANCELED"]
    /\ UNCHANGED <<expired, reviews, chat, req, failures>>

\* A santri's, of any visit that waits elsewhere, moves them all: no WHERE id.
CancelEvery ==
    /\ \E v \in Visits : visit[v] # "CANCELED"
    /\ visit' = [v \in Visits |-> "CANCELED"]
    /\ UNCHANGED <<expired, reviews, chat, req, failures>>

WindowEnds(v) ==
    /\ visit[v] = "COMPLETED" /\ v \notin expired
    /\ expired' = expired \cup {v}
    /\ UNCHANGED <<visit, reviews, chat, req, failures>>

-----------------------------------------------------------------------------
(* Reviews *)

BeginReview(p, v, d) ==
    /\ visit[v] = "COMPLETED"
    /\ Begin(p, "insertReview", v, d)
    /\ UNCHANGED <<visit, expired, reviews, chat, failures>>

\* A second review of the same direction violates a unique key.
InsertReview(p) ==
    /\ At(p, "insertReview")
    /\ LET r == <<req[p].visit, req[p].party>> IN
         IF review[r] = "none"
         THEN review' = [review EXCEPT ![r] = "hidden"] /\ Goto(p, "countReviews")
         ELSE End(p) /\ UNCHANGED review
    /\ UNCHANGED <<visit, expired, closing, peeked, chat, failures>>

CountReviews(p) ==
    /\ At(p, "countReviews")
    /\ IF \A d \in Party : review[<<req[p].visit, d>>] # "none"
       THEN Goto(p, "reveal") ELSE End(p)
    /\ UNCHANGED <<visit, expired, reviews, chat, failures>>

Reveal(p) ==
    /\ At(p, "reveal")
    /\ RevealAll(req[p].visit)
    /\ MarkReviewed(req[p].visit)
    /\ End(p)
    /\ UNCHANGED <<expired, closing, peeked, chat, failures>>

\* What d's own review says of revealing, or the visit if there is none.
Revealed(v, d) == IF review[<<v, d>>] = "none" THEN visit[v] = "REVIEWED"
                  ELSE review[<<v, d>>] = "revealed"

Asking(v, d) == \E p \in Requests : At(p, "insertReview") /\ req[p].visit = v /\ req[p].party = d

review_status(v, d) ==
    /\ Revealed(v, d)
    /\ review[<<v, Other(d)>>] # "none"
    /\ review[<<v, d>>] = "none" /\ ~Asking(v, d)
    /\ peeked' = peeked \cup {<<v, d>>}
    /\ UNCHANGED <<visit, expired, review, closing, chat, req, failures>>

\* The public reviews of an ustadz show what was revealed.
ustadz_public_reviews(v) ==
    /\ review[<<v, "santri">>] = "revealed"
    /\ review[<<v, "ustadz">>] = "none" /\ ~Asking(v, "ustadz")
    /\ peeked' = peeked \cup {<<v, "ustadz">>}
    /\ UNCHANGED <<visit, expired, review, closing, chat, req, failures>>

\* job_review_window: select, then a transaction for each visit.
SelectClosing ==
    /\ closing = {}
    /\ closing' = {v \in Visits : visit[v] = "COMPLETED" /\ v \in expired}
    /\ closing' # {}
    /\ UNCHANGED <<visit, expired, review, peeked, chat, req, failures>>

CloseReviews(v) ==
    /\ v \in closing
    /\ closing' = closing \ {v}
    /\ RevealAll(v)
    /\ MarkReviewed(v)
    /\ UNCHANGED <<expired, peeked, chat, req, failures>>

-----------------------------------------------------------------------------
(* Chat *)

BeginSend(p, v, d) ==
    /\ visit[v] \in {"CONFIRMED", "IN_PROGRESS"}
    /\ Begin(p, "insertMessage", v, d)
    /\ UNCHANGED <<visit, expired, reviews, chat, failures>>

InsertMessage(p) ==
    /\ At(p, "insertMessage")
    /\ \E m \in Messages :
          /\ \A n \in Messages : (message[n].visit = Nothing) <=> (n >= m)
          /\ message' = [message EXCEPT ![m] =
                [visit |-> req[p].visit, party |-> req[p].party, read |-> FALSE]]
    /\ End(p)
    /\ UNCHANGED <<visit, expired, reviews, shown, failures>>

Unread(v, d) == {m \in Messages : /\ message[m].visit = v /\ message[m].party # d
                                  /\ ~message[m].read}

\* The newest page is read, and will be shown.
messages_list(p, v, d) ==
    /\ Begin(p, "markRead", v, d)
    /\ LET sent == {m \in Messages : message[m].visit = v}
       IN shown' = [shown EXCEPT ![d] =
                      @ \cup {m \in sent : Quantify(sent, LAMBDA n : n > m) < PageSize}]
    /\ UNCHANGED <<visit, expired, reviews, message, failures>>

\* All that is unread by now is marked as read.
MarkRead(p) ==
    /\ At(p, "markRead")
    /\ message' = [m \in Messages |->
          IF m \in Unread(req[p].visit, req[p].party) THEN [message[m] EXCEPT !.read = TRUE]
                                                      ELSE message[m]]
    /\ End(p)
    /\ UNCHANGED <<visit, expired, reviews, shown, failures>>

-----------------------------------------------------------------------------

\* A statement fails, or the process dies: a request, or the whole job, ends.
Fail ==
    /\ failures < MaxFailures
    /\ failures' = failures + 1
    /\ \/ \E p \in Requests : req[p] # Idle /\ End(p) /\ UNCHANGED closing
       \/ closing # {} /\ closing' = {} /\ UNCHANGED req
    /\ UNCHANGED <<visit, expired, review, peeked, chat>>

Handle(p) ==
    \/ InsertReview(p) \/ CountReviews(p) \/ Reveal(p) \/ InsertMessage(p) \/ MarkRead(p)

Next ==
    \/ \E v \in Visits :
          \/ \E new \in {"IN_PROGRESS", "COMPLETED"} : Advance(v, new)
          \/ Cancel(v) \/ WindowEnds(v) \/ CloseReviews(v) \/ ustadz_public_reviews(v)
          \/ \E d \in Party : review_status(v, d)
          \/ \E p \in Requests, d \in Party :
                BeginReview(p, v, d) \/ BeginSend(p, v, d) \/ messages_list(p, v, d)
    \/ \E p \in Requests : Handle(p)
    \/ CancelEvery \/ SelectClosing
    \/ Fail

Spec == Init /\ [][Next]_vars

\* Weeks go by, and the worker runs the hourly job (DueIsTaken of JobQueue).
FairSpec ==
    /\ Spec
    /\ \A v \in Visits : WF_vars(WindowEnds(v)) /\ WF_vars(CloseReviews(v))
    /\ WF_vars(SelectClosing)

-----------------------------------------------------------------------------
(* Properties *)

\* Double-blind: whoever was shown the other's review, by review_status or in
\* a public list, before asking to write an own one, does not write one any more.
ReviewsAreBlind ==
    \A v \in Visits, d \in Party : <<v, d>> \in peeked => review[<<v, d>>] = "none"

\* When both have reviewed and no request died over it, both reviews are
\* revealed and the visit is no longer open to reviews, however the requests
\* overlapped with each other and with the closing of the window.
BothReviewedIsRevealed ==
    \A v \in Visits :
        /\ \A d \in Party : review[<<v, d>>] # "none"
        /\ \A p \in Requests : req[p].visit = v => req[p].at \in {"insertMessage", "markRead"}
        /\ failures = 0
        => /\ \A d \in Party : review[<<v, d>>] = "revealed"
           /\ visit[v] # "COMPLETED"

\* A review of a COMPLETED visit is revealed in the end, also if the other
\* party never writes one, or a request dies between writing and revealing -
\* or the visit is canceled all the same.
ReviewsComeOut ==
    \A v \in Visits, d \in Party :
        visit[v] = "COMPLETED" /\ review[<<v, d>>] = "hidden"
            ~> review[<<v, d>>] = "revealed" \/ visit[v] = "CANCELED"

-----------------------------------------------------------------------------
(* The inductive invariant *)

Both(v)     == \A d \in Party : review[<<v, d>>] # "none"
AllOut(v)   == visit[v] # "COMPLETED" /\ \A d \in Party : review[<<v, d>>] = "revealed"
Handling(v) == \E p \in Requests : req[p].visit = v /\ req[p].at \in {"countReviews", "reveal"}

\* Where there are reviews the visit was served, where one is revealed it takes
\* no more; who was shown the other's is not about to write one; of two reviews
\* someone takes care until they are revealed.
TalkKnows(v) ==
    /\ \A d \in Party :
          /\ review[<<v, d>>] # "none" => visit[v] \in {"COMPLETED", "REVIEWED", "CANCELED"}
          /\ review[<<v, d>>] = "revealed" => visit[v] # "COMPLETED"
          /\ <<v, d>> \in peeked => ~Asking(v, d) /\ visit[v] \in {"REVIEWED", "CANCELED"}
    /\ v \in closing => visit[v] \in {"COMPLETED", "REVIEWED", "CANCELED"}
    /\ failures = 0 /\ Both(v) => Handling(v) \/ AllOut(v)

\* A review is inserted for a visit that was COMPLETED, and only goes on to
\* REVIEWED or CANCELED since.
RequestKnows(p) ==
    req[p].at \in {"insertReview", "countReviews", "reveal"} =>
        /\ req[p].visit \in Visits
        /\ visit[req[p].visit] \in {"COMPLETED", "REVIEWED", "CANCELED"}

IInv == /\ TypeOK
        /\ ReviewsAreBlind
        /\ \A v \in Visits : TalkKnows(v)
        /\ \A p \in Requests : RequestKnows(p)

-----------------------------------------------------------------------------
(* Statements of the source the code does not live up to *)

\* "kedua review masuk - reveal" or "window review lewat" (service.rs:751,
\* payments.rs:453): a review is revealed in the end.  One that was inserted
\* after the window was closed, its request having seen COMPLETED, stays hidden.
EveryReviewComesOut ==
    \A v \in Visits, d \in Party :
        review[<<v, d>>] = "hidden" ~> review[<<v, d>>] = "revealed" \/ visit[v] = "CANCELED"

\* A message that was marked as read has been shown: those beyond the page are
\* marked too, and those sent between the two statements (service.rs:653, :665).
ReadIsShown ==
    \A m \in Messages : message[m].read => m \in shown[Other(message[m].party)]
=============================================================================
