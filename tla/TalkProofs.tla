----------------------------- MODULE TalkProofs -----------------------------
(***************************************************************************)
(* What is said between the users, for any number of them and of requests: *)
(* VisitTalk, the reviews and the chat of a visit, and Notices with its    *)
(* Outbox, the inbox of a user.                                            *)
(*                                                                         *)
(* VisitTalk: a request that saw a COMPLETED visit may insert its review   *)
(* when the visit is long REVIEWED or CANCELED.  What it may rely on is    *)
(* that a visit never goes back (Onward): who has been shown a review was  *)
(* shown it in a visit that takes no new ones.                             *)
(*                                                                         *)
(* Notices: writers and the pump meet in the rows of user_notifications.   *)
(* Writers fill blank rows, which no batch holds; the pump writes nothing  *)
(* a writer looks for.  So what a request or a job knows about a row stays *)
(* true while the pump runs, and the other way round.                      *)
(***************************************************************************)
EXTENDS VisitTalk, Notices, FiniteSetTheorems, TLAPS

Over   == {"REVIEWED", "CANCELED"}
Served == {"COMPLETED"} \cup Over

RequestSet == [at : {"idle", "insertReview", "countReviews", "reveal", "insertMessage", "markRead"},
               visit : Visits \cup {Nothing}, party : Party]

\* A visit that was served stays so, and one that is over stays over.
Onward == \A v \in Visits : /\ visit[v] \in Served => visit'[v] \in Served
                            /\ visit[v] \in Over => visit'[v] \in Over

\* The visits that change hands in a step go on to REVIEWED.
MarkedReviewed(v) == \A w \in Visits :
    visit'[w] = IF w = v /\ visit[w] = "COMPLETED" THEN "REVIEWED" ELSE visit[w]

-----------------------------------------------------------------------------
\* Reviews of a visit are revealed, and the visit moves on, in one step.
LEMMA Revealing ==
    ASSUME IInv, NEW v \in Visits, visit[v] \in Served, RevealAll(v), MarkReviewed(v)
    PROVE  /\ visit' \in [Visits -> {"CONFIRMED", "IN_PROGRESS", "COMPLETED", "REVIEWED", "CANCELED"}]
           /\ review' \in [Visits \X Party -> Row]
           /\ Onward /\ visit'[v] \in Over
           /\ \A d \in Party : review'[<<v, d>>] # "hidden"
           /\ \A w \in Visits, d \in Party : (review'[<<w, d>>] = "none") <=> (review[<<w, d>>] = "none")
           /\ \A w \in Visits \ {v} : /\ visit'[w] = visit[w]
                                      /\ \A d \in Party : review'[<<w, d>>] = review[<<w, d>>]
PROOF
  <1>1. /\ visit \in [Visits -> {"CONFIRMED", "IN_PROGRESS", "COMPLETED", "REVIEWED", "CANCELED"}]
        /\ review \in [Visits \X Party -> Row]
    BY DEF IInv, TypeOK
  <1>2. /\ visit' \in [Visits -> {"CONFIRMED", "IN_PROGRESS", "COMPLETED", "REVIEWED", "CANCELED"}]
        /\ \A w \in Visits \ {v} : visit'[w] = visit[w]
        /\ visit'[v] \in Over
    BY <1>1 DEF MarkReviewed, Served, Over
  <1>3. \A w \in Visits, d \in Party :
           review'[<<w, d>>] = IF w = v /\ review[<<w, d>>] = "hidden" THEN "revealed"
                               ELSE review[<<w, d>>]
    BY DEF RevealAll
  <1>4. review' \in [Visits \X Party -> Row]
    BY <1>1 DEF RevealAll, Row
  <1> QED BY <1>1, <1>2, <1>3, <1>4 DEF Onward, Served, Over

\* What requests know stays true when visits only go on.
LEMMA RequestsKeepKnowing ==
    ASSUME IInv, Onward, NEW p \in Requests, req'[p] = req[p]
    PROVE  RequestKnows(p)'
  BY DEF IInv, RequestKnows, Onward, Served, Over

\* A step that leaves the reviews and the requests alone.
LEMMA VisitStep ==
    ASSUME IInv, TypeOK', Onward, UNCHANGED <<review, closing, req, failures, peeked>>,
           \A v \in Visits : visit'[v] = "COMPLETED" => visit[v] \notin Over
    PROVE  IInv'
PROOF
  <1>1. \A p \in Requests : RequestKnows(p)'
    BY RequestsKeepKnowing
  <1>2. ASSUME NEW v \in Visits PROVE TalkKnows(v)'
    <2>1. /\ \A d \in Party : review'[<<v, d>>] # "none" => visit'[v] \in Served
          /\ \A d \in Party : <<v, d>> \in peeked' => visit'[v] \in Over /\ ~Asking(v, d)'
          /\ v \in closing' => visit'[v] \in Served
      BY DEF IInv, TalkKnows, Onward, Served, Over, Asking, At
    <2>2. \A d \in Party : review'[<<v, d>>] = "revealed" => visit'[v] # "COMPLETED"
      BY DEF IInv, TalkKnows, Over
    <2>3. failures' = 0 /\ Both(v)' =>
              Handling(v)' \/ AllOut(v)'
      <3>1. /\ failures' = failures /\ (Both(v)' <=> Both(v)) /\ (Handling(v)' <=> Handling(v))
            /\ AllOut(v) => AllOut(v)'
        BY <2>2 DEF Both, Handling, AllOut, Party
      <3>2. failures = 0 /\ Both(v) => Handling(v) \/ AllOut(v)
        BY DEF IInv, TalkKnows
      <3> QED BY <3>1, <3>2
    <2> QED BY <2>1, <2>2, <2>3 DEF TalkKnows, Served, Over
  <1>3. ReviewsAreBlind'
    BY DEF IInv, ReviewsAreBlind
  <1> QED BY <1>1, <1>2, <1>3 DEF IInv

\* A step of one request, or its death, that leaves visits and reviews alone.
LEMMA RequestStep ==
    ASSUME IInv, TypeOK', UNCHANGED <<visit, review, peeked>>, NEW p \in Requests,
           \A q \in Requests \ {p} : req'[q] = req[q],
           closing' \subseteq closing, RequestKnows(p)',
           \A d \in Party, v \in Visits : <<v, d>> \in peeked =>
               ~(At(p, "insertReview") /\ req[p].visit = v /\ req[p].party = d)',
           failures' = 0 => failures = 0,
           failures' = 0 /\ req[p].at \in {"countReviews", "reveal"} /\ Both(req[p].visit) =>
               req'[p].at \in {"countReviews", "reveal"} /\ req'[p].visit = req[p].visit
    PROVE  IInv'
PROOF
  <1>1. \A q \in Requests : RequestKnows(q)'
    BY RequestsKeepKnowing DEF Onward
  <1>2. ASSUME NEW v \in Visits PROVE TalkKnows(v)'
    <2>1. \A d \in Party :
             /\ review'[<<v, d>>] # "none" => visit'[v] \in {"COMPLETED", "REVIEWED", "CANCELED"}
             /\ review'[<<v, d>>] = "revealed" => visit'[v] # "COMPLETED"
      BY DEF IInv, TalkKnows
    <2>2. v \in closing' => visit'[v] \in {"COMPLETED", "REVIEWED", "CANCELED"}
      BY DEF IInv, TalkKnows
    <2>3. ASSUME NEW d \in Party, <<v, d>> \in peeked'
          PROVE  ~Asking(v, d)' /\ visit'[v] \in {"REVIEWED", "CANCELED"}
      BY <2>3 DEF IInv, TalkKnows, Asking, At
    <2>4. ASSUME failures' = 0, Both(v)'
          PROVE  Handling(v)' \/ AllOut(v)'
      <3>1. Both(v)
        BY <2>4 DEF Both
      <3>2. Handling(v) \/ AllOut(v)
        BY <2>4, <3>1 DEF IInv, TalkKnows
      <3>3. ASSUME Handling(v) PROVE Handling(v)'
        <4>1. PICK q \in Requests : req[q].visit = v /\ req[q].at \in {"countReviews", "reveal"}
          BY <3>3 DEF Handling
        <4> QED BY <4>1, <2>4, <3>1 DEF Handling
      <3>4. AllOut(v) => AllOut(v)'
        BY DEF AllOut
      <3> QED BY <3>2, <3>3, <3>4
    <2> QED BY <2>1, <2>2, <2>3, <2>4 DEF TalkKnows
  <1>3. ReviewsAreBlind'
    BY DEF IInv, ReviewsAreBlind
  <1> QED BY <1>1, <1>2, <1>3 DEF IInv

\* The reviews of a visit are revealed by a request that is done then, or by
\* the job.
LEMMA RevealStep ==
    ASSUME IInv, TypeOK', NEW v \in Visits, visit[v] \in Served, RevealAll(v), MarkReviewed(v),
           UNCHANGED <<peeked, failures>>, closing' \subseteq closing,
           \A q \in Requests : req'[q] = req[q] \/ (req'[q] = Idle /\ req[q].visit = v)
    PROVE  IInv'
PROOF
  <1>1. /\ Onward /\ visit'[v] \in Over
        /\ \A d \in Party : review'[<<v, d>>] # "hidden"
        /\ \A w \in Visits, d \in Party : (review'[<<w, d>>] = "none") <=> (review[<<w, d>>] = "none")
        /\ \A w \in Visits \ {v} : /\ visit'[w] = visit[w]
                                   /\ \A d \in Party : review'[<<w, d>>] = review[<<w, d>>]
    BY Revealing
  <1>2. \A q \in Requests : RequestKnows(q)'
    <2> SUFFICES ASSUME NEW q \in Requests PROVE RequestKnows(q)'
      OBVIOUS
    <2>1. CASE req'[q] = Idle
      BY <2>1 DEF RequestKnows, Idle
    <2> QED BY <2>1, <1>1, RequestsKeepKnowing
  <1>3. ASSUME NEW w \in Visits PROVE TalkKnows(w)'
    <2>1. \A d \in Party : <<w, d>> \in peeked' => ~Asking(w, d)' /\ visit'[w] \in Over
      BY <1>1 DEF IInv, TalkKnows, Asking, At, Onward, Over, Idle
    <2>2. w \in closing' => visit'[w] \in Served
      BY <1>1 DEF IInv, TalkKnows, Onward, Served, Over
    <2>3. CASE w = v
      <3>1. \A d \in Party : review'[<<v, d>>] \in Row
        BY DEF TypeOK
      <3> QED BY <2>1, <2>2, <2>3, <3>1, <1>1 DEF TalkKnows, Served, Over, Both, Row, AllOut
    <2>4. CASE w # v
      <3>1. failures' = 0 /\ Both(w)' => failures = 0 /\ Both(w)
        BY <2>4, <1>1 DEF Both
      <3>2. Handling(w) => Handling(w)'
        BY <2>4 DEF Handling
      <3>3. failures' = 0 /\ Both(w)' =>
               Handling(w)' \/ AllOut(w)'
        <4>1. failures = 0 /\ Both(w) => Handling(w) \/ AllOut(w)
          BY DEF IInv, TalkKnows
        <4>2. AllOut(w) => AllOut(w)'
          BY <2>4, <1>1 DEF AllOut
        <4> QED BY <3>1, <3>2, <4>1, <4>2
      <3>4. \A d \in Party :
               /\ review'[<<w, d>>] # "none" => visit'[w] \in {"COMPLETED", "REVIEWED", "CANCELED"}
               /\ review'[<<w, d>>] = "revealed" => visit'[w] # "COMPLETED"
        BY <2>4, <1>1 DEF IInv, TalkKnows
      <3> QED BY <2>1, <2>2, <3>3, <3>4 DEF TalkKnows, Served, Over
    <2> QED BY <2>3, <2>4
  <1>4. ReviewsAreBlind'
    BY <1>1 DEF IInv, ReviewsAreBlind
  <1> QED BY <1>2, <1>3, <1>4 DEF IInv

-----------------------------------------------------------------------------
(* The steps *)

\* A review is written by who has not been shown the other's.
LEMMA InsertStep ==
    ASSUME VisitTalkAssumption, IInv, NEW p \in Requests, InsertReview(p)
    PROVE  IInv'
PROOF
  <1> DEFINE v == req[p].visit
             d == req[p].party
  <1>1. v \in Visits /\ d \in Party /\ visit[v] \in Served /\ req[p] \in RequestSet
    BY DEF IInv, TypeOK, RequestKnows, InsertReview, At, Served, Over, RequestSet
  <1>2. TypeOK'
    <2>1. review' \in [Visits \X Party -> Row]
      BY DEF InsertReview, IInv, TypeOK, Row
    <2>2. req' \in [Requests -> RequestSet]
      <3>1. Idle \in RequestSet /\ [req[p] EXCEPT !.at = "countReviews"] \in RequestSet
        BY <1>1 DEF RequestSet, Idle, Party
      <3>2. req' = [req EXCEPT ![p] = Idle] \/ req' = [req EXCEPT ![p] = [req[p] EXCEPT !.at = "countReviews"]]
        BY DEF InsertReview, Goto, End
      <3> QED BY <3>1, <3>2 DEF IInv, TypeOK, RequestSet
    <2> QED BY <2>1, <2>2 DEF InsertReview, IInv, TypeOK, chat, RequestSet
  <1>3. CASE review[<<v, d>>] # "none"
    <2>1. UNCHANGED <<visit, review, peeked, closing, failures>> /\ End(p)
      BY <1>3 DEF InsertReview
    <2>2. req'[p] = Idle /\ \A q \in Requests \ {p} : req'[q] = req[q]
      BY <2>1 DEF End, IInv, TypeOK
    <2>3. req[p].at = "insertReview"
      BY DEF InsertReview, At
    <2> QED BY <1>2, <2>1, <2>2, <2>3, RequestStep DEF RequestKnows, Idle, At
  <1>4. CASE review[<<v, d>>] = "none"
    <2>1. /\ review' = [review EXCEPT ![<<v, d>>] = "hidden"] /\ Goto(p, "countReviews")
          /\ UNCHANGED <<visit, peeked, closing, failures>> /\ req[p].at = "insertReview"
      BY <1>4 DEF InsertReview, At
    <2>2. /\ req'[p].at = "countReviews" /\ req'[p].visit = v /\ req'[p].party = d
          /\ \A q \in Requests \ {p} : req'[q] = req[q]
      BY <2>1, <1>1 DEF Goto, IInv, TypeOK, RequestSet
    <2>3. /\ review'[<<v, d>>] = "hidden"
          /\ \A w \in Visits, e \in Party : w # v \/ e # d => review'[<<w, e>>] = review[<<w, e>>]
      BY <2>1, <1>1 DEF IInv, TypeOK
    <2>4. \A q \in Requests : RequestKnows(q)'
      <3>1. RequestKnows(p)'
        BY <2>1, <2>2, <1>1 DEF RequestKnows, Served, Over
      <3> QED BY <3>1, <2>1, <2>2, RequestsKeepKnowing DEF Onward
    <2>5. <<v, d>> \notin peeked
      BY <1>1, <2>1 DEF IInv, TalkKnows, Asking, At
    <2>6. ReviewsAreBlind'
      <3> SUFFICES ASSUME NEW w \in Visits, NEW e \in Party, <<w, e>> \in peeked
                   PROVE  review'[<<w, e>>] = "none"
        BY <2>1 DEF ReviewsAreBlind
      <3>1. w # v \/ e # d
        BY <2>5
      <3> QED BY <3>1, <2>3 DEF IInv, ReviewsAreBlind
    <2>7. ASSUME NEW w \in Visits PROVE TalkKnows(w)'
      <3>1. \A e \in Party :
               /\ review'[<<w, e>>] # "none" => visit'[w] \in {"COMPLETED", "REVIEWED", "CANCELED"}
               /\ review'[<<w, e>>] = "revealed" => visit'[w] # "COMPLETED"
        BY <2>1, <2>3, <1>1 DEF IInv, TalkKnows, Served, Over
      <3>2. \A e \in Party : <<w, e>> \in peeked' => ~Asking(w, e)' /\ visit'[w] \in {"REVIEWED", "CANCELED"}
        BY <2>1, <2>2 DEF IInv, TalkKnows, Asking, At
      <3>3. w \in closing' => visit'[w] \in {"COMPLETED", "REVIEWED", "CANCELED"}
        BY <2>1 DEF IInv, TalkKnows
      <3>4. CASE w = v
        BY <3>1, <3>2, <3>3, <3>4, <2>2 DEF TalkKnows, Handling
      <3>5. CASE w # v
        <4>1. (Both(w)' <=> Both(w)) /\ (AllOut(w) => AllOut(w)')
          BY <3>5, <2>1, <2>3 DEF Both, AllOut
        <4>2. Handling(w) => Handling(w)'
          BY <3>5, <2>2 DEF Handling
        <4>3. failures = 0 /\ Both(w) => Handling(w) \/ AllOut(w)
          BY DEF IInv, TalkKnows
        <4>4. failures' = 0 /\ Both(w)' => Handling(w)' \/ AllOut(w)'
          BY <4>1, <4>2, <4>3, <2>1
        <4> QED BY <3>1, <3>2, <3>3, <4>4 DEF TalkKnows
      <3> QED BY <3>4, <3>5
    <2> QED BY <1>2, <2>4, <2>6, <2>7 DEF IInv
  <1> QED BY <1>3, <1>4

\* Who is shown a review without having one is shown it in a visit that is over.
LEMMA PeekStep ==
    ASSUME IInv, NEW v \in Visits, NEW d \in Party,
           review_status(v, d) \/ (d = "ustadz" /\ ustadz_public_reviews(v))
    PROVE  IInv'
PROOF
  <1>1. /\ peeked' = peeked \cup {<<v, d>>}
        /\ UNCHANGED <<visit, expired, review, closing, chat, req, failures>>
        /\ review[<<v, d>>] = "none" /\ ~Asking(v, d)
    BY DEF review_status, ustadz_public_reviews
  <1>2. visit[v] \in Over
    <2>1. Other(d) \in Party /\ (d = "ustadz" => Other(d) = "santri")
      BY DEF Other, Party
    <2>2. review[<<v, Other(d)>>] # "none"
      BY <2>1 DEF review_status, ustadz_public_reviews
    <2>3. visit[v] \in Served
      BY <2>1, <2>2 DEF IInv, TalkKnows, Served, Over
    <2>4. visit[v] = "REVIEWED" \/ review[<<v, Other(d)>>] = "revealed"
      BY <1>1, <2>1 DEF review_status, ustadz_public_reviews, Revealed
    <2> QED BY <2>1, <2>3, <2>4 DEF IInv, TalkKnows, Served, Over
  <1>3. TypeOK'
    BY <1>1 DEF IInv, TypeOK, chat
  <1>4. \A q \in Requests : RequestKnows(q)'
    BY <1>1, RequestsKeepKnowing DEF Onward
  <1>5. ReviewsAreBlind'
    BY <1>1 DEF IInv, ReviewsAreBlind
  <1>6. ASSUME NEW w \in Visits PROVE TalkKnows(w)'
    <2>1. \A e \in Party : <<w, e>> \in peeked' => ~Asking(w, e)' /\ visit'[w] \in {"REVIEWED", "CANCELED"}
      BY <1>1, <1>2 DEF IInv, TalkKnows, Asking, At, Over
    <2>2. (Both(w)' <=> Both(w)) /\ (AllOut(w)' <=> AllOut(w)) /\ (Handling(w)' <=> Handling(w))
      BY <1>1 DEF Both, AllOut, Handling
    <2>3. failures = 0 /\ Both(w) => Handling(w) \/ AllOut(w)
      BY DEF IInv, TalkKnows
    <2>4. failures' = 0 /\ Both(w)' => Handling(w)' \/ AllOut(w)'
      BY <1>1, <2>2, <2>3
    <2> QED BY <1>1, <2>1, <2>4 DEF IInv, TalkKnows
  <1> QED BY <1>3, <1>4, <1>5, <1>6 DEF IInv

\* The visit moves on by itself.
LEMMA VisitSteps ==
    ASSUME IInv, NEW v \in Visits, NEW new \in {"IN_PROGRESS", "COMPLETED"},
           Advance(v, new) \/ Cancel(v) \/ CancelEvery \/ WindowEnds(v)
    PROVE  IInv'
PROOF
  <1>1. TypeOK'
    <2>1. CASE Advance(v, new)
      BY <2>1 DEF Advance, IInv, TypeOK, reviews, chat
    <2>2. CASE Cancel(v)
      BY <2>2 DEF Cancel, IInv, TypeOK, reviews, chat
    <2>3. CASE WindowEnds(v)
      BY <2>3 DEF WindowEnds, IInv, TypeOK, reviews, chat
    <2>4. CASE CancelEvery
      BY <2>4 DEF CancelEvery, IInv, TypeOK, reviews, chat
    <2> QED BY <2>1, <2>2, <2>3, <2>4
  <1>2. /\ Onward
        /\ \A w \in Visits : visit'[w] = "COMPLETED" => visit[w] \notin Over
        /\ UNCHANGED <<review, closing, req, failures, peeked>>
    BY DEF Advance, Cancel, CancelEvery, WindowEnds, IInv, TypeOK, reviews, Onward, Served, Over
  <1>3. \A w \in Visits : visit'[w] = "COMPLETED" => visit[w] # "CANCELED" /\ visit[w] # "REVIEWED"
    BY <1>2 DEF Over
  <1> QED BY <1>1, <1>2, VisitStep

\* The job selects visits that were COMPLETED.
LEMMA SelectStep ==
    ASSUME IInv, SelectClosing
    PROVE  IInv'
PROOF
  <1>1. UNCHANGED <<visit, review, peeked, req, failures>> /\ closing' \subseteq {v \in Visits : visit[v] = "COMPLETED"}
    BY DEF SelectClosing
  <1>2. TypeOK'
    BY <1>1 DEF SelectClosing, IInv, TypeOK, chat
  <1>3. \A q \in Requests : RequestKnows(q)'
    BY <1>1, RequestsKeepKnowing DEF Onward
  <1>4. ASSUME NEW w \in Visits PROVE TalkKnows(w)'
    <2>1. (Both(w)' <=> Both(w)) /\ (AllOut(w)' <=> AllOut(w)) /\ (Handling(w)' <=> Handling(w))
      BY <1>1 DEF Both, AllOut, Handling
    <2>2. failures = 0 /\ Both(w) => Handling(w) \/ AllOut(w)
      BY DEF IInv, TalkKnows
    <2>3. failures' = 0 /\ Both(w)' => Handling(w)' \/ AllOut(w)'
      BY <1>1, <2>1, <2>2
    <2> QED BY <1>1, <2>3 DEF IInv, TalkKnows, Asking, At
  <1> QED BY <1>1, <1>2, <1>3, <1>4 DEF IInv, ReviewsAreBlind

\* A request begins, looks, sends its message, or marks messages as read.
LEMMA QuietStep ==
    ASSUME VisitTalkAssumption, IInv, NEW p \in Requests, NEW v \in Visits, NEW d \in Party,
           \/ BeginReview(p, v, d) \/ BeginSend(p, v, d) \/ messages_list(p, v, d)
           \/ CountReviews(p) \/ InsertMessage(p) \/ MarkRead(p)
    PROVE  IInv'
PROOF
  <1>1. UNCHANGED <<visit, review, peeked, closing, failures>>
    BY DEF BeginReview, BeginSend, messages_list, CountReviews, InsertMessage, MarkRead, reviews
  <1>2. req[p] \in RequestSet /\ req \in [Requests -> RequestSet]
    BY DEF IInv, TypeOK, RequestSet
  <1>3. CASE BeginReview(p, v, d)
    <2>1. req' = [req EXCEPT ![p] = [at |-> "insertReview", visit |-> v, party |-> d]]
      BY <1>3 DEF BeginReview, Begin
    <2>2. TypeOK'
      BY <1>3, <2>1 DEF BeginReview, IInv, TypeOK, reviews, chat
    <2>3. visit[v] = "COMPLETED" /\ req[p] = Idle
      BY <1>3 DEF BeginReview, Begin
    <2>4. \A e \in Party : <<v, e>> \notin peeked
      BY <2>3 DEF IInv, TalkKnows
    <2>5. RequestKnows(p)'
      BY <1>1, <1>2, <2>1, <2>3 DEF RequestKnows
    <2> QED BY <1>1, <1>2, <2>1, <2>2, <2>3, <2>4, <2>5, RequestStep DEF At, Idle
  <1>4. CASE BeginSend(p, v, d)
    <2>1. req' = [req EXCEPT ![p] = [at |-> "insertMessage", visit |-> v, party |-> d]]
      BY <1>4 DEF BeginSend, Begin
    <2>2. TypeOK'
      BY <1>4, <2>1 DEF BeginSend, IInv, TypeOK, reviews, chat
    <2>3. req[p] = Idle
      BY <1>4 DEF BeginSend, Begin
    <2> QED BY <1>1, <1>2, <2>1, <2>2, <2>3, RequestStep DEF At, Idle, RequestKnows
  <1>5. CASE CountReviews(p)
    <2>1. req[p].at = "countReviews"
      BY <1>5 DEF CountReviews, At
    <2>2. CASE Both(req[p].visit)
      <3>1. req' = [req EXCEPT ![p].at = "reveal"]
        BY <1>5, <2>2 DEF CountReviews, Goto, Both
      <3>2. req'[p].at = "reveal" /\ req'[p].visit = req[p].visit /\ \A q \in Requests \ {p} : req'[q] = req[q]
        BY <1>2, <3>1 DEF RequestSet
      <3>3. TypeOK'
        BY <1>1, <1>2, <1>5, <3>1 DEF CountReviews, IInv, TypeOK, chat, RequestSet
      <3>4. RequestKnows(p)'
        BY <1>1, <2>1, <3>2 DEF IInv, RequestKnows
      <3> QED BY <1>1, <3>2, <3>3, <3>4, RequestStep DEF At
    <2>3. CASE ~Both(req[p].visit)
      <3>1. req' = [req EXCEPT ![p] = Idle]
        BY <1>5, <2>3 DEF CountReviews, End, Both
      <3>2. TypeOK'
        BY <1>1, <1>2, <1>5, <3>1 DEF CountReviews, IInv, TypeOK, chat, Idle, Party
      <3> QED BY <1>1, <1>2, <2>3, <3>1, <3>2, RequestStep DEF At, Idle, RequestKnows
    <2> QED BY <2>2, <2>3
  <1>6. CASE InsertMessage(p)
    <2>1. req' = [req EXCEPT ![p] = Idle] /\ req[p].at = "insertMessage"
      BY <1>6 DEF InsertMessage, End, At
    <2>2. message' \in [Messages -> [visit : Visits \cup {Nothing}, party : Party, read : BOOLEAN]]
      BY <1>2, <1>6 DEF InsertMessage, IInv, TypeOK, RequestSet
    <2>3. TypeOK'
      BY <1>1, <1>2, <1>6, <2>1, <2>2 DEF InsertMessage, IInv, TypeOK, Idle, Party
    <2> QED BY <1>1, <1>2, <2>1, <2>3, RequestStep DEF At, Idle, RequestKnows
  <1>7. CASE messages_list(p, v, d)
    <2>1. req' = [req EXCEPT ![p] = [at |-> "markRead", visit |-> v, party |-> d]] /\ req[p] = Idle
      BY <1>7 DEF messages_list, Begin
    <2>2. shown' \in [Party -> SUBSET Messages]
      <3>1. PICK page \in SUBSET Messages : shown' = [shown EXCEPT ![d] = @ \cup page]
        BY <1>7 DEF messages_list
      <3> QED BY <3>1 DEF IInv, TypeOK
    <2>3. TypeOK'
      BY <1>7, <2>1, <2>2 DEF messages_list, IInv, TypeOK, reviews
    <2> QED BY <1>1, <1>2, <2>1, <2>3, RequestStep DEF At, Idle, RequestKnows
  <1>8. CASE MarkRead(p)
    <2>1. req' = [req EXCEPT ![p] = Idle] /\ req[p].at = "markRead"
      BY <1>8 DEF MarkRead, End, At
    <2>2. message' \in [Messages -> [visit : Visits \cup {Nothing}, party : Party, read : BOOLEAN]]
      BY <1>8 DEF MarkRead, IInv, TypeOK
    <2>3. TypeOK'
      BY <1>1, <1>2, <1>8, <2>1, <2>2 DEF MarkRead, IInv, TypeOK, Idle, Party
    <2> QED BY <1>1, <1>2, <2>1, <2>3, RequestStep DEF At, Idle, RequestKnows
  <1> QED BY <1>3, <1>4, <1>5, <1>6, <1>7, <1>8

\* A request, or the whole job, ends with its work undone.
LEMMA FailStep ==
    ASSUME VisitTalkAssumption, IInv, Fail
    PROVE  IInv'
PROOF
  <1>1. /\ UNCHANGED <<visit, review, peeked>> /\ failures' # 0
        /\ TypeOK' /\ closing' \subseteq closing
    <2>1. failures' = failures + 1 /\ failures \in 0..MaxFailures /\ failures' \in 0..MaxFailures
      BY DEF Fail, IInv, TypeOK, VisitTalkAssumption
    <2> QED BY <2>1 DEF Fail, End, Idle, Party, IInv, TypeOK, chat
  <1>2. CASE \E p \in Requests : End(p)
    <2>1. PICK p \in Requests : req' = [req EXCEPT ![p] = Idle]
      BY <1>2 DEF End
    <2> QED BY <1>1, <2>1, RequestStep DEF At, Idle, RequestKnows, IInv, TypeOK
  <1>3. CASE UNCHANGED req
    <2>1. \A q \in Requests : RequestKnows(q)'
      BY <1>1, <1>3, RequestsKeepKnowing DEF Onward
    <2>2. ASSUME NEW w \in Visits PROVE TalkKnows(w)'
      BY <1>1, <1>3 DEF IInv, TalkKnows, Asking, At
    <2> QED BY <1>1, <2>1, <2>2 DEF IInv, ReviewsAreBlind
  <1> QED BY <1>2, <1>3 DEF Fail

\* One request has found both reviews, or the job closes the window.
LEMMA RevealSteps ==
    ASSUME VisitTalkAssumption, IInv,
           (\E p \in Requests : Reveal(p)) \/ (\E v \in Visits : CloseReviews(v))
    PROVE  IInv'
PROOF
  <1>1. ASSUME NEW p \in Requests, Reveal(p) PROVE IInv'
    <2> DEFINE v == req[p].visit
    <2>1. v \in Visits /\ visit[v] \in Served
      BY <1>1 DEF Reveal, At, IInv, RequestKnows, Served, Over
    <2>2. RevealAll(v) /\ MarkReviewed(v) /\ req' = [req EXCEPT ![p] = Idle]
          /\ UNCHANGED <<expired, closing, peeked, chat, failures>>
      BY <1>1 DEF Reveal, End
    <2>3. TypeOK'
      BY <2>1, <2>2, Revealing DEF IInv, TypeOK, chat, Idle, Party
    <2>4. \A q \in Requests : req'[q] = req[q] \/ (req'[q] = Idle /\ req[q].visit = v)
      <3>1. req \in [Requests -> RequestSet]
        BY DEF IInv, TypeOK, RequestSet
      <3>2. req'[p] = Idle /\ \A q \in Requests \ {p} : req'[q] = req[q]
        BY <3>1, <2>2
      <3> HIDE DEF v
      <3>3. req[p].visit = v
        BY DEF v
      <3> QED BY <3>2, <3>3
    <2> HIDE DEF v
    <2> QED BY <2>1, <2>2, <2>3, <2>4, RevealStep
  <1>2. ASSUME NEW v \in Visits, CloseReviews(v) PROVE IInv'
    <2>1. RevealAll(v) /\ MarkReviewed(v) /\ visit[v] \in Served
          /\ UNCHANGED <<expired, peeked, chat, req, failures>> /\ closing' = closing \ {v}
      BY <1>2 DEF CloseReviews, IInv, TalkKnows, Served, Over
    <2>2. TypeOK'
      BY <2>1, Revealing DEF IInv, TypeOK, chat
    <2>3. /\ UNCHANGED <<peeked, failures>> /\ closing' \subseteq closing
          /\ \A q \in Requests : req'[q] = req[q] \/ (req'[q] = Idle /\ req[q].visit = v)
      BY <2>1
    <2>4. RevealAll(v) /\ MarkReviewed(v) /\ visit[v] \in Served
      BY <2>1
    <2> QED BY <2>2, <2>3, <2>4, RevealStep
  <1> QED BY <1>1, <1>2

-----------------------------------------------------------------------------
(* The theorems *)

\* No review has been written when the day begins.
LEMMA Starts == VisitTalkAssumption /\ Init => IInv
PROOF
  <1> SUFFICES ASSUME VisitTalkAssumption, Init PROVE IInv
    OBVIOUS
  <1>1. TypeOK
    BY DEF Init, TypeOK, Idle, Party, Row, VisitTalkAssumption
  <1>2. \A v \in Visits : TalkKnows(v)
    BY DEF Init, TalkKnows, Both, Party
  <1> QED BY <1>1, <1>2 DEF Init, IInv, ReviewsAreBlind, RequestKnows, Idle

\* Every step keeps the invariant.
LEMMA StepInv == VisitTalkAssumption /\ IInv /\ [Next]_vars => IInv'
PROOF
  <1> SUFFICES ASSUME VisitTalkAssumption, IInv, [Next]_vars PROVE IInv'
    OBVIOUS
  <1>1. ASSUME NEW v \in Visits,
               \/ \E new \in {"IN_PROGRESS", "COMPLETED"} : Advance(v, new)
               \/ Cancel(v) \/ WindowEnds(v)
        PROVE IInv'
    BY <1>1, VisitSteps
  <1>2. ASSUME NEW v \in Visits, NEW d \in Party, review_status(v, d) PROVE IInv'
    <2>1. review_status(v, d) \/ (d = "ustadz" /\ ustadz_public_reviews(v))
      BY <1>2
    <2> QED BY <2>1, PeekStep, Zenon
  <1>3. ASSUME NEW v \in Visits, ustadz_public_reviews(v) PROVE IInv'
    BY <1>3, PeekStep DEF Party
  <1>4. ASSUME NEW v \in Visits, NEW p \in Requests, NEW d \in Party,
               BeginReview(p, v, d) \/ BeginSend(p, v, d) \/ messages_list(p, v, d)
        PROVE IInv'
    BY <1>4, QuietStep
  <1>5. ASSUME NEW p \in Requests, InsertReview(p) \/ Reveal(p) PROVE IInv'
    BY <1>5, InsertStep, RevealSteps
  <1>6. ASSUME NEW p \in Requests, CountReviews(p) \/ InsertMessage(p) \/ MarkRead(p) PROVE IInv'
    <2>1. CASE Visits # {}
      BY <1>6, <2>1, QuietStep DEF Party
    <2>2. CASE Visits = {}
      <3>1. InsertMessage(p) \/ MarkRead(p)
        BY <1>6, <2>2 DEF CountReviews, At, IInv, RequestKnows
      <3>2. TypeOK'
        <4>1. message' \in [Messages -> [visit : Visits \cup {Nothing}, party : Party, read : BOOLEAN]]
          <5>1. CASE InsertMessage(p)
            BY <5>1 DEF InsertMessage, IInv, TypeOK
          <5>2. CASE MarkRead(p)
            <6>1. PICK S : message' = [m \in Messages |->
                     IF m \in S THEN [message[m] EXCEPT !.read = TRUE] ELSE message[m]]
              BY <5>2 DEF MarkRead
            <6>2. message \in [Messages -> [visit : Visits \cup {Nothing}, party : Party, read : BOOLEAN]]
              BY DEF IInv, TypeOK
            <6>3. \A m \in Messages : [message[m] EXCEPT !.read = TRUE]
                     \in [visit : Visits \cup {Nothing}, party : Party, read : BOOLEAN]
              BY <6>2
            <6> QED BY <6>1, <6>2, <6>3
          <5> QED BY <3>1, <5>1, <5>2
        <4> QED BY <3>1, <4>1 DEF InsertMessage, MarkRead, IInv, TypeOK, End, Idle, Party, reviews
      <3>3. ASSUME NEW q \in Requests PROVE RequestKnows(q)'
        <4>1. req' = [req EXCEPT ![p] = Idle] /\ UNCHANGED visit
          BY <3>1 DEF InsertMessage, MarkRead, End
        <4>2. req'[q] = Idle \/ req'[q] = req[q]
          BY <4>1 DEF IInv, TypeOK
        <4> QED BY <4>1, <4>2 DEF IInv, RequestKnows, Idle
      <3>4. ReviewsAreBlind'
        BY <2>2 DEF ReviewsAreBlind
      <3> QED BY <2>2, <3>2, <3>3, <3>4 DEF IInv
    <2> QED BY <2>1, <2>2
  <1>7. ASSUME UNCHANGED vars PROVE IInv'
    <2>1. TypeOK' /\ \A q \in Requests : RequestKnows(q)'
      BY <1>7 DEF vars, reviews, chat, IInv, TypeOK, RequestKnows
    <2> QED BY <1>7, <2>1, VisitStep DEF vars, reviews, chat, Onward, Over
  <1>8. ASSUME NEW v \in Visits, CloseReviews(v) PROVE IInv'
    BY <1>8, RevealSteps
  <1>9. CASE CancelEvery
    BY <1>9, VisitSteps DEF CancelEvery
  <1> QED
    BY <1>1, <1>2, <1>3, <1>4, <1>5, <1>6, <1>7, <1>8, <1>9, SelectStep, FailStep DEF Next, Handle

\* What visits, reviews and requests may rely on, for any number of them.
THEOREM Talk_Invariant == Spec => []IInv
PROOF
  <1> USE VisitTalkAssumption
  <1> QED BY Starts, StepInv, PTL DEF Spec

\* Double-blind (submit_review, review_status, ustadz_public_reviews of
\* visits/service.rs): who was shown the other's review before asking to write
\* one never writes one, for any number of visits and overlapping requests.
THEOREM Reviews_Are_Blind == Spec => []ReviewsAreBlind
PROOF
  <1>1. IInv => ReviewsAreBlind
    BY DEF IInv
  <1> QED BY <1>1, Talk_Invariant, PTL

\* When both have reviewed and no request died over it, both reviews are
\* revealed and the visit takes no more (submit_review and job_review_window),
\* for any number of visits and overlapping requests.
THEOREM Both_Reviewed_Is_Revealed == Spec => []BothReviewedIsRevealed
PROOF
  <1>1. IInv => BothReviewedIsRevealed
    <2> SUFFICES ASSUME IInv, NEW v \in Visits, Both(v), failures = 0,
                        \A p \in Requests : req[p].visit = v => req[p].at \in {"insertMessage", "markRead"}
                 PROVE  AllOut(v)
      BY DEF BothReviewedIsRevealed, Both, AllOut
    <2>1. ~Handling(v)
      BY DEF Handling, At
    <2> QED BY <2>1 DEF IInv, TalkKnows
  <1> QED BY <1>1, Talk_Invariant, PTL

-----------------------------------------------------------------------------
(* The inbox: rows *)

NoteRow == [user : Users \cup {Nobody}, about : Subjects \cup {"none"},
            state : {"none", "pending", "done"}, attempts : 0..MaxAttempts]
PumpRow == [at : {"idle", "devices", "send", "finish"}, batch : SUBSET Notes,
            left : SUBSET Phones, gone : SUBSET Phones, dead : SUBSET Phones,
            delivered : BOOLEAN, transient : BOOLEAN]

NewRow(u, about) == [user |-> u, about |-> about, state |-> "pending", attempts |-> 0]

Assumed == OutboxAssumption /\ NoticesAssumption

\* A set of numbers has a least one.
LEMMA LeastOne ==
    ASSUME NEW S \in SUBSET Nat, S # {}
    PROVE  \E k \in S : \A j \in S : k <= j
PROOF
  <1>1. PICK n \in S : TRUE
    OBVIOUS
  <1> DEFINE Low == {0..k : k \in {j \in S : j <= n}}
  <1>2. IsFiniteSet(0..n) /\ Low \subseteq SUBSET (0..n) /\ 0..n \in Low
    <2>1. IsFiniteSet(0..n)
      BY FS_Interval
    <2>2. \A k \in {j \in S : j <= n} : 0..k \subseteq 0..n
      OBVIOUS
    <2>3. n \in {j \in S : j <= n}
      OBVIOUS
    <2> QED BY <2>1, <2>2, <2>3
  <1>3. Low \subseteq FiniteSubsetsOf(0..n)
    BY <1>2, FS_Subset DEF FiniteSubsetsOf
  <1>4. PICK s \in Low : \A t \in Low : <<t, s>> \notin StrictSubsetOrdering(0..n)
    <2> HIDE DEF Low
    <2> QED BY <1>2, <1>3, FS_StrictSubsetOrderingWellFounded, WFMin
  <1>5. PICK k \in S : k <= n /\ s = 0..k
    OBVIOUS
  <1>6. ASSUME NEW j \in S, j < k PROVE FALSE
    <2>1. 0..j \in Low /\ 0..j \subseteq 0..k /\ 0..j # 0..k
      BY <1>5, <1>6
    <2> HIDE DEF Low
    <2> QED BY <1>2, <1>4, <1>5, <2>1 DEF StrictSubsetOrdering
  <1> QED BY <1>5, <1>6

\* The row in hand is one of the batch.
LEMMA HeadOfBatch ==
    ASSUME Assumed, OutboxTypeOK, pump.batch # {}
    PROVE  InHand \in pump.batch
PROOF
  <1>1. pump.batch \in SUBSET Nat
    BY DEF Assumed, OutboxAssumption, OutboxTypeOK
  <1>2. \E k \in pump.batch : \A j \in pump.batch : k <= j
    BY <1>1, LeastOne
  <1> QED BY <1>2 DEF InHand, Min

\* The first blank rows, as many as there are users to tell.
Filled(users) == {n \in Unused : Cardinality({k \in Unused : k < n}) < Cardinality(users)}

LEMMA TellSays ==
    ASSUME NEW users, NEW about, Tell(users, about)
    PROVE  \E to \in [Filled(users) -> users] :
              /\ \A u \in users : \E n \in Filled(users) : to[n] = u
              /\ note' = [n \in Notes |-> IF n \in Filled(users) THEN NewRow(to[n], about)
                                                                 ELSE note[n]]
PROOF
  <1> DEFINE rows == {n \in Unused : Cardinality({s \in Unused : s < n})
                                              < Cardinality(users)}
  <1>1. \E to \in [rows -> users] :
           /\ \A u \in users : \E n \in rows : to[n] = u
           /\ note' = [n \in Notes |-> IF n \in rows
                 THEN [user |-> to[n], about |-> about, state |-> "pending", attempts |-> 0]
                 ELSE note[n]]
    BY Zenon DEF Tell, Quantify
  <1>2. rows = Filled(users)
    BY DEF Filled
  <1> HIDE DEF rows
  <1> QED BY <1>1, <1>2 DEF NewRow

\* A row that is written was blank.
LEMMA TellRows ==
    ASSUME Assumed, OutboxTypeOK, PumpInv, NEW users \in SUBSET Users,
           NEW about \in Subjects, Tell(users, about)
    PROVE  /\ note' \in [Notes -> NoteRow]
           /\ \A n \in Notes : \/ note'[n] = note[n]
                               \/ /\ note[n] = Blank
                                  /\ \E u \in users : note'[n] = NewRow(u, about)
PROOF
  <1> DEFINE rows == Filled(users)
  <1>4. PICK to \in [rows -> users] :
           note' = [n \in Notes |-> IF n \in rows THEN NewRow(to[n], about) ELSE note[n]]
    BY TellSays
  <1>2. ASSUME NEW n \in rows
        PROVE  /\ n \in Notes /\ note[n] = Blank /\ to[n] \in users
               /\ NewRow(to[n], about) \in NoteRow
    <2>1. n \in Notes /\ note[n].state = "none"
      BY <1>2 DEF Unused, Filled
    <2>2. MaxAttempts \in Nat
      BY DEF Assumed, OutboxAssumption
    <2> QED BY <2>1, <2>2 DEF PumpInv, NewRow, NoteRow
  <1>3. note \in [Notes -> NoteRow]
    BY DEF OutboxTypeOK, NoteRow
  <1> QED BY <1>2, <1>3, <1>4

\* One user is told in one row.
LEMMA TellsOneRow ==
    ASSUME Assumed, OutboxTypeOK, PumpInv, NEW u \in Users,
           NEW about \in Subjects, Tell({u}, about)
    PROVE  \E m \in Notes : /\ note[m] = Blank
                            /\ note' = [note EXCEPT ![m] = NewRow(u, about)]
PROOF
  <1> DEFINE Before(n) == {k \in Unused : k < n}
             R         == {n \in Unused : Cardinality(Before(n)) < 1}
  <1>1. PICK to \in [R -> {u}] :
           /\ \E n \in R : to[n] = u
           /\ note' = [n \in Notes |-> IF n \in R THEN NewRow(to[n], about) ELSE note[n]]
    <2>1. R = Filled({u})
      BY FS_Singleton DEF Filled
    <2> HIDE DEF R
    <2> QED BY <2>1, TellSays
  <1>2. Unused \subseteq Notes /\ Notes \subseteq Nat /\ IsFiniteSet(Notes)
    BY DEF Unused, Assumed, OutboxAssumption
  <1>3. ASSUME NEW m \in R, NEW n \in R, m < n PROVE FALSE
    <2>1. m \in Before(n) /\ Before(n) \in SUBSET Notes
      BY <1>2, <1>3
    <2>2. IsFiniteSet(Before(n))
      BY <1>2, <2>1, FS_Subset
    <2>3. Cardinality(Before(n)) \in Nat /\ Cardinality(Before(n)) # 0
      <3> HIDE DEF Before
      <3> QED BY <2>1, <2>2, FS_CardinalityType, FS_EmptySet
    <2> QED BY <2>3
  <1>4. PICK m \in R : TRUE
    BY <1>1
  <1>5. R = {m}
    <2>1. \A n \in R : n \in Nat /\ m \in Nat
      BY <1>2
    <2> HIDE DEF R
    <2> QED BY <1>3, <1>4, <2>1
  <1>6. m \in Notes /\ note[m] = Blank
    BY <1>2, <1>4 DEF Unused, PumpInv
  <1>7. to[m] = u
    BY <1>1, <1>4
  <1>8. note \in [Notes -> NoteRow]
    BY DEF OutboxTypeOK, NoteRow
  <1>9. note' = [n \in Notes |-> IF n \in {m} THEN NewRow(to[n], about) ELSE note[n]]
    BY <1>1, <1>5
  <1> HIDE DEF R
  <1>10. note' = [note EXCEPT ![m] = NewRow(u, about)]
    BY <1>6, <1>7, <1>8, <1>9
  <1> QED BY <1>6, <1>10

-----------------------------------------------------------------------------
(* The inbox: the pump *)

\* What a step of the pump, a phone or a death leaves to the writers.
RowsKept == \A n \in Notes : note'[n].user = note[n].user /\ note'[n].about = note[n].about

\* What is said of the pushes of one row to one phone.
Pushed(n, d) ==
    /\ pushes[<<n, d>>] <= Tries(n, d)
    /\ pushes[<<n, d>>] <= 1 + lost[<<n, d>>]
    /\ pushes[<<n, d>>] > lost[<<n, d>>] =>
          note[n].state = "done" \/ (Sending(n) /\ pump.delivered /\ d \notin pump.left)

\* PumpInv and the types, with names.
LEMMA PumpSays ==
    ASSUME OutboxTypeOK, PumpInv
    PROVE  /\ note \in [Notes -> NoteRow] /\ pump \in PumpRow
           /\ pushes \in [Notes \X Phones -> Nat] /\ lost \in [Notes \X Phones -> Nat]
           /\ cut \subseteq Notes /\ \A n \in Notes : note[n].attempts \in 0..MaxAttempts
           /\ begun \in 0..MaxBegun /\ deaths \in 0..MaxDeaths
           /\ pump.at = "idle" <=> pump.batch = {}
           /\ \A n \in pump.batch : note[n].state = "pending" /\ note[n].attempts < MaxAttempts
           /\ \A n \in Notes : note[n].state = "none" => note[n] = Blank
           /\ \A n \in Notes \ cut, d \in Phones : Pushed(n, d)
  BY DEF OutboxTypeOK, PumpInv, NoteRow, PumpRow, Pushed

\* The pump takes up rows that are pending.
LEMMA NextRowFacts ==
    ASSUME Assumed, NEW rows \in SUBSET Notes, pump' = NextRow(rows)
    PROVE  /\ pump' \in PumpRow /\ pump'.batch = rows
           /\ pump'.at = "idle" <=> rows = {}
           /\ pump'.at \notin {"send", "finish"}
PROOF
  <1>1. CASE rows = {}
    BY <1>1 DEF NextRow, Rest, PumpRow
  <1>2. CASE rows # {}
    <2>1. pump' = [at |-> "devices", batch |-> rows, left |-> {}, gone |-> {}, dead |-> {},
                   delivered |-> FALSE, transient |-> FALSE]
      BY <1>2 DEF NextRow, Rest
    <2> QED BY <1>2, <2>1 DEF PumpRow
  <1> QED BY <1>1, <1>2

\* A batch is selected.
LEMMA BatchStep ==
    ASSUME Assumed, OutboxTypeOK, PumpInv, PumpSelect
    PROVE  OutboxTypeOK' /\ PumpInv' /\ RowsKept
PROOF
  <1> DEFINE rows == {n \in Pending :
                        Quantify(Pending, LAMBDA k : k < n) < BatchSize}
  <1>1. rows \subseteq Pending /\ pump' = NextRow(rows)
    BY DEF PumpSelect
  <1> HIDE DEF rows
  <1>2. /\ UNCHANGED <<note, phone, registering, pushes, lost, begun, deaths, cut>>
        /\ pump.at = "idle"
    BY DEF PumpSelect
  <1>3. /\ rows \in SUBSET Notes
        /\ \A n \in rows : note[n].state = "pending" /\ note[n].attempts < MaxAttempts
    BY <1>1 DEF Pending
  <1>4. /\ pump' \in PumpRow /\ pump'.batch = rows /\ (pump'.at = "idle" <=> rows = {})
    BY <1>1, <1>3, NextRowFacts
  <1>5. ASSUME NEW n \in Notes \ cut, NEW d \in Phones PROVE Pushed(n, d)'
    <2>1. pump'.at \notin {"send", "finish"}
      BY <1>1, <1>3, NextRowFacts
    <2> QED BY <1>2, <2>1, PumpSays DEF Pushed, Sending, Tries
  <1>6. OutboxTypeOK'
    BY <1>2, <1>4 DEF OutboxTypeOK, PumpRow
  <1>7. PumpInv'
    BY <1>2, <1>3, <1>4, <1>5, PumpSays DEF PumpInv, Pushed
  <1> QED BY <1>2, <1>6, <1>7 DEF RowsKept

\* A step on the row in hand that writes no row and pushes nothing.
LEMMA InHandStep ==
    ASSUME Assumed, OutboxTypeOK, PumpInv, pump.at # "idle",
           UNCHANGED <<note, registering, pushes, lost, begun, deaths, cut>>,
           phone' \in [Phones -> [user : Users \cup {Nobody}, app : BOOLEAN, active : BOOLEAN]],
           pump' \in PumpRow, pump'.batch = pump.batch, pump'.at \in {"send", "finish"},
           pump.at \in {"send", "finish"} =>
               pump'.delivered = pump.delivered /\ pump'.left \subseteq pump.left
    PROVE  OutboxTypeOK' /\ PumpInv' /\ RowsKept
PROOF
  <1>1. InHand' = InHand
    BY DEF InHand
  <1>2. ASSUME NEW n \in Notes \ cut, NEW d \in Phones PROVE Pushed(n, d)'
    <2>1. Tries(n, d)' \in Nat /\ Tries(n, d) \in Nat /\ Tries(n, d) <= Tries(n, d)'
      BY <1>1, PumpSays DEF Tries, Sending
    <2>2. pushes[<<n, d>>] \in Nat
      BY PumpSays
    <2>3. Pushed(n, d) /\ pushes' = pushes /\ lost' = lost /\ note' = note
      BY PumpSays
    <2> QED BY <1>1, <2>1, <2>2, <2>3 DEF Pushed, Sending
  <1>3. OutboxTypeOK'
    BY DEF OutboxTypeOK, PumpRow
  <1>4. PumpInv'
    BY <1>2, PumpSays DEF PumpInv, Pushed
  <1> QED BY <1>3, <1>4 DEF RowsKept

\* The phones of the user are read, dead ones are switched off.
LEMMA PhonesStep ==
    ASSUME Assumed, OutboxTypeOK, PumpInv, PumpDevices \/ PumpDeactivate
    PROVE  OutboxTypeOK' /\ PumpInv' /\ RowsKept
PROOF
  <1>1. /\ pump \in PumpRow
        /\ phone \in [Phones -> [user : Users \cup {Nobody}, app : BOOLEAN, active : BOOLEAN]]
    BY PumpSays DEF OutboxTypeOK
  <1>2. CASE PumpDevices
    <2> DEFINE mine == {d \in Phones : /\ phone[d].user = note[InHand].user
                                       /\ phone[d].active /\ phone[d].app}
               at   == IF mine = {} THEN "finish" ELSE "send"
    <2>1. pump' = [pump EXCEPT !.at = at, !.left = mine] /\ mine \in SUBSET Phones
      BY <1>2 DEF PumpDevices
    <2>2. at \in {"send", "finish"}
      OBVIOUS
    <2> HIDE DEF mine, at
    <2>3. /\ pump' \in PumpRow /\ pump'.batch = pump.batch /\ pump'.at \in {"send", "finish"}
      BY <1>1, <2>1, <2>2 DEF PumpRow
    <2> QED BY <1>1, <1>2, <2>3, InHandStep DEF PumpDevices
  <1>3. CASE PumpDeactivate
    <2>1. /\ pump' = [pump EXCEPT !.at = "finish"] /\ pump.at = "send"
          /\ UNCHANGED <<note, registering, pushes, lost, begun, deaths, cut>>
          /\ phone' = [d \in Phones |-> IF d \in pump.dead \ pump.gone
                                        THEN [phone[d] EXCEPT !.active = FALSE] ELSE phone[d]]
      BY <1>3 DEF PumpDeactivate
    <2>2. /\ pump' \in PumpRow /\ pump'.batch = pump.batch /\ pump'.at = "finish"
          /\ pump'.delivered = pump.delivered /\ pump'.left = pump.left
      BY <1>1, <2>1 DEF PumpRow
    <2>3. phone' \in [Phones -> [user : Users \cup {Nobody}, app : BOOLEAN, active : BOOLEAN]]
      BY <1>1, <2>1
    <2> QED BY <2>1, <2>2, <2>3, InHandStep
  <1> QED BY <1>2, <1>3

\* One push: the first to this phone, if it arrives.
LEMMA SendStep ==
    ASSUME Assumed, OutboxTypeOK, PumpInv, NEW d \in Phones,
           NEW outcome \in Outcome, PumpSend(d, outcome)
    PROVE  OutboxTypeOK' /\ PumpInv' /\ RowsKept
PROOF
  <1> DEFINE h == InHand
  <1>1. /\ pump.at = "send" /\ d \in pump.left
        /\ UNCHANGED <<note, phone, registering, begun, deaths, cut>>
        /\ pushes' = IF outcome \in {"ok", "lost"} THEN [pushes EXCEPT ![<<h, d>>] = @ + 1]
                                                   ELSE pushes
        /\ lost'   = IF outcome = "lost" THEN [lost EXCEPT ![<<h, d>>] = @ + 1] ELSE lost
    BY DEF PumpSend
  <1>2. h \in pump.batch /\ h \in Notes
    BY <1>1, PumpSays, HeadOfBatch DEF PumpRow
  <1>3. /\ pump' \in PumpRow /\ pump'.batch = pump.batch /\ pump'.at = "send"
        /\ pump'.left = pump.left \ {d}
        /\ pump'.delivered = (pump.delivered \/ outcome = "ok")
    BY PumpSays DEF PumpSend, PumpRow
  <1>4. InHand' = h
    BY <1>3 DEF InHand
  <1> HIDE DEF h
  <1>5. ASSUME NEW n \in Notes \ cut, NEW e \in Phones PROVE Pushed(n, e)'
    <2>1. /\ Pushed(n, e) /\ (Sending(n) <=> n = h) /\ (Sending(n)' <=> n = h)
          /\ note[n].attempts \in Nat /\ pushes[<<n, e>>] \in Nat /\ lost[<<n, e>>] \in Nat
      BY <1>1, <1>3, <1>4, PumpSays DEF Sending, h
    <2>2. CASE n = h /\ e = d
      <3>1. pushes[<<n, e>>] <= lost[<<n, e>>] /\ pushes[<<n, e>>] <= note[n].attempts
        BY <1>1, <1>2, <2>1, <2>2, PumpSays DEF Pushed, Tries
      <3>2. Tries(n, e)' = note[n].attempts + 1
        BY <1>1, <1>3, <2>1, <2>2 DEF Tries
      <3>3. /\ pushes'[<<n, e>>] = pushes[<<n, e>>] + (IF outcome \in {"ok", "lost"} THEN 1 ELSE 0)
            /\ lost'[<<n, e>>] = lost[<<n, e>>] + (IF outcome = "lost" THEN 1 ELSE 0)
        BY <1>1, <1>2, <2>1, <2>2, PumpSays
      <3>4. outcome = "ok" => pump'.delivered /\ e \notin pump'.left
        BY <1>3, <2>2
      <3> QED BY <2>1, <2>2, <3>1, <3>2, <3>3, <3>4 DEF Pushed
    <2>3. CASE ~(n = h /\ e = d)
      <3>1. pushes'[<<n, e>>] = pushes[<<n, e>>] /\ lost'[<<n, e>>] = lost[<<n, e>>]
        BY <1>1, <2>3, PumpSays
      <3>2. Tries(n, e)' = Tries(n, e)
        BY <1>1, <1>3, <2>1, <2>3 DEF Tries
      <3> QED BY <1>1, <1>3, <2>1, <3>1, <3>2 DEF Pushed
    <2> QED BY <2>2, <2>3
  <1>6. pushes' \in [Notes \X Phones -> Nat] /\ lost' \in [Notes \X Phones -> Nat]
    BY <1>1, <1>2, PumpSays
  <1>7. OutboxTypeOK'
    BY <1>1, <1>3, <1>6 DEF OutboxTypeOK, PumpRow
  <1>8. PumpInv'
    BY <1>1, <1>3, <1>5, PumpSays DEF PumpInv, Pushed
  <1> QED BY <1>1, <1>7, <1>8 DEF RowsKept

\* The row in hand is written: pending again only if nobody got it.
LEMMA FinishStep ==
    ASSUME Assumed, OutboxTypeOK, PumpInv, PumpFinish
    PROVE  OutboxTypeOK' /\ PumpInv' /\ RowsKept
PROOF
  <1> DEFINE h     == InHand
             state == IF ~pump.delivered /\ pump.transient THEN "pending" ELSE "done"
  <1>1. /\ pump.at = "finish"
        /\ note' = [note EXCEPT ![h].state = state, ![h].attempts = @ + 1]
        /\ pump' = NextRow(pump.batch \ {h})
        /\ UNCHANGED <<phone, registering, pushes, lost, begun, deaths, cut>>
    BY DEF PumpFinish, Written
  <1>2. h \in pump.batch /\ h \in Notes /\ pump.batch \subseteq Notes
    BY <1>1, PumpSays, HeadOfBatch DEF PumpRow
  <1>3. /\ pump' \in PumpRow /\ pump'.batch = pump.batch \ {h}
        /\ pump'.at = "idle" <=> pump'.batch = {}
        /\ pump'.at \notin {"send", "finish"}
    BY <1>1, <1>2, NextRowFacts
  <1>4. /\ note[h] \in NoteRow /\ note[h].attempts + 1 \in 0..MaxAttempts /\ MaxAttempts \in Nat
        /\ note[h].state = "pending"
    <2>1. /\ note[h] \in NoteRow /\ note[h].attempts \in 0..MaxAttempts /\ MaxAttempts \in Nat
      BY <1>2, PumpSays DEF Assumed, OutboxAssumption
    <2>2. note[h].state = "pending" /\ note[h].attempts < MaxAttempts
      BY <1>2, PumpSays
    <2> QED BY <2>1, <2>2
  <1>5. /\ note'[h] = [note[h] EXCEPT !.state = state, !.attempts = @ + 1]
        /\ \A n \in Notes \ {h} : note'[n] = note[n]
        /\ note' \in [Notes -> NoteRow]
    BY <1>1, <1>2, <1>4, PumpSays DEF NoteRow
  <1>6. /\ note'[h].state = state /\ note'[h].user = note[h].user /\ note'[h].about = note[h].about
        /\ note'[h].attempts = note[h].attempts + 1
    BY <1>4, <1>5 DEF NoteRow
  <1>7. ASSUME NEW n \in Notes \ cut, NEW e \in Phones PROVE Pushed(n, e)'
    <2>1. /\ Pushed(n, e) /\ pushes' = pushes /\ lost' = lost /\ (Sending(n) <=> n = h)
          /\ note[n].attempts \in Nat /\ pushes[<<n, e>>] \in Nat /\ lost[<<n, e>>] \in Nat
          /\ Tries(n, e)' = note'[n].attempts
      BY <1>1, <1>3, PumpSays DEF Sending, Tries
    <2>2. CASE n = h
      <3>1. pushes[<<n, e>>] > lost[<<n, e>>] => pump.delivered
        BY <1>4, <2>1, <2>2 DEF Pushed
      <3>2. Tries(n, e) <= note'[n].attempts /\ Tries(n, e) \in Nat
        BY <1>6, <2>1, <2>2 DEF Tries
      <3>3. pushes[<<n, e>>] <= note'[n].attempts
        BY <1>6, <2>1, <2>2, <3>2 DEF Pushed
      <3> QED BY <1>6, <2>1, <2>2, <3>1, <3>3 DEF Pushed
    <2>3. CASE n # h
      BY <1>5, <2>1, <2>3 DEF Pushed, Tries
    <2> QED BY <2>2, <2>3
  <1>8. OutboxTypeOK'
    BY <1>1, <1>3, <1>5 DEF OutboxTypeOK, PumpRow, NoteRow
  <1>9. PumpInv'
    <2>1. \A n \in pump'.batch : note'[n].state = "pending" /\ note'[n].attempts < MaxAttempts
      BY <1>2, <1>3, <1>5, PumpSays
    <2>2. \A n \in Notes : note'[n].state = "none" => note'[n] = Blank
      BY <1>5, <1>6, PumpSays
    <2> QED BY <1>1, <1>3, <1>7, <2>1, <2>2 DEF PumpInv, Pushed
  <1> QED BY <1>5, <1>6, <1>8, <1>9 DEF RowsKept

\* The pump dies: the row in hand may come twice from now on.
LEMMA PumpDiesStep ==
    ASSUME Assumed, OutboxTypeOK, PumpInv, PumpDies
    PROVE  OutboxTypeOK' /\ PumpInv' /\ RowsKept
PROOF
  <1>1. /\ pump.at # "idle" /\ deaths < MaxDeaths /\ deaths' = deaths + 1
        /\ cut' = cut \cup {InHand} /\ pump' = Rest
        /\ UNCHANGED <<note, phone, registering, pushes, lost, begun>>
    BY DEF PumpDies
  <1>2. InHand \in Notes
    BY <1>1, PumpSays, HeadOfBatch DEF PumpRow
  <1>3. pump' \in PumpRow /\ pump'.at = "idle" /\ pump'.batch = {}
    BY <1>1 DEF Rest, PumpRow
  <1>4. ASSUME NEW n \in Notes \ cut', NEW e \in Phones PROVE Pushed(n, e)'
    BY <1>1, <1>3, PumpSays DEF Pushed, Sending, Tries
  <1>5. deaths' \in 0..MaxDeaths
    BY <1>1, PumpSays DEF Assumed, OutboxAssumption
  <1>6. OutboxTypeOK'
    BY <1>1, <1>2, <1>3, <1>5 DEF OutboxTypeOK, PumpRow
  <1>7. PumpInv'
    BY <1>1, <1>3, <1>4, PumpSays DEF PumpInv, Pushed
  <1> QED BY <1>1, <1>6, <1>7 DEF RowsKept

\* Phones come and go; of one that goes the pump only learns the id is gone.
LEMMA PhoneStep ==
    ASSUME Assumed, OutboxTypeOK, PumpInv, NEW u \in Users,
           Upsert(u) \/ \E d \in Phones : BeginRegister(u, d) \/ delete_device(u, d)
    PROVE  OutboxTypeOK' /\ PumpInv' /\ RowsKept
PROOF
  <1> DEFINE PhoneRow == [user : Users \cup {Nobody}, app : BOOLEAN, active : BOOLEAN]
  <1>1. /\ phone \in [Phones -> PhoneRow] /\ registering \in [Users -> Phones \cup {NoPhone}]
        /\ MaxBegun \in Nat
    BY DEF OutboxTypeOK, Assumed, OutboxAssumption
  <1>2. /\ UNCHANGED <<note, pushes, lost, deaths, cut>>
        /\ begun' \in 0..MaxBegun
    BY <1>1, PumpSays DEF Upsert, BeginRegister, delete_device, MayBegin
  <1>3. /\ pump' \in PumpRow /\ pump'.at = pump.at /\ pump'.batch = pump.batch
        /\ pump'.delivered = pump.delivered /\ pump'.left = pump.left
    <2>1. PICK gone \in SUBSET Phones : pump' = pump \/ pump' = [pump EXCEPT !.gone = gone]
      <3>1. pump.gone \in SUBSET Phones
        BY PumpSays DEF PumpRow
      <3>2. CASE pump' = pump
        BY <3>2
      <3>3. CASE pump' # pump
        <4>1. PICK d \in Phones : pump' = [pump EXCEPT !.gone = pump.gone \cup {d}]
          BY <3>3 DEF Upsert, BeginRegister, delete_device
        <4> QED BY <3>1, <4>1
      <3> QED BY <3>2, <3>3
    <2> QED BY <2>1, PumpSays DEF PumpRow
  <1>4. registering' \in [Users -> Phones \cup {NoPhone}]
    BY <1>1 DEF Upsert, BeginRegister, delete_device
  <1>5. phone' \in [Phones -> PhoneRow]
    <2>1. CASE Upsert(u)
      <3>1. PICK app \in BOOLEAN :
               phone' = [phone EXCEPT ![registering[u]] =
                  [user |-> IF phone[registering[u]].user = Nobody THEN u
                            ELSE phone[registering[u]].user, app |-> app, active |-> TRUE]]
        BY <2>1 DEF Upsert
      <3>2. registering[u] \in Phones
        BY <1>1, <2>1 DEF Upsert
      <3> QED BY <1>1, <3>1, <3>2
    <2>2. CASE phone' = phone
      BY <1>1, <2>2
    <2>3. CASE \E d \in Phones : phone' = [phone EXCEPT ![d] = NoRow]
      BY <1>1, <2>3 DEF NoRow
    <2> QED BY <2>1, <2>2, <2>3 DEF BeginRegister, delete_device
  <1>6. InHand' = InHand
    BY <1>3 DEF InHand
  <1>7. ASSUME NEW n \in Notes \ cut, NEW e \in Phones PROVE Pushed(n, e)'
    BY <1>2, <1>3, <1>6, PumpSays DEF Pushed, Sending, Tries
  <1>8. OutboxTypeOK'
    BY <1>2, <1>3, <1>4, <1>5 DEF OutboxTypeOK, PumpRow
  <1>9. PumpInv'
    BY <1>2, <1>3, <1>7, PumpSays DEF PumpInv, Pushed
  <1> QED BY <1>2, <1>8, <1>9 DEF RowsKept

\* Whatever the pump and the phones do.
LEMMA OutboxStep ==
    ASSUME Assumed, OutboxTypeOK, PumpInv, OutboxNext
    PROVE  OutboxTypeOK' /\ PumpInv' /\ RowsKept
PROOF
  <1>1. CASE PumpSelect
    BY <1>1, BatchStep
  <1>2. CASE PumpDevices \/ PumpDeactivate
    BY <1>2, PhonesStep
  <1>3. ASSUME NEW d \in Phones, NEW outcome \in Outcome, PumpSend(d, outcome)
        PROVE  OutboxTypeOK' /\ PumpInv' /\ RowsKept
    BY <1>3, SendStep
  <1>4. CASE PumpFinish
    BY <1>4, FinishStep
  <1>5. CASE PumpDies
    BY <1>5, PumpDiesStep
  <1>6. ASSUME NEW u \in Users,
               Upsert(u) \/ \E d \in Phones : BeginRegister(u, d) \/ delete_device(u, d)
        PROVE  OutboxTypeOK' /\ PumpInv' /\ RowsKept
    BY <1>6, PhoneStep
  <1> QED BY <1>1, <1>2, <1>3, <1>4, <1>5, <1>6 DEF OutboxNext, PumpStep

-----------------------------------------------------------------------------
(* The inbox: what writers do to it *)

\* A step that leaves the inbox alone.
LEMMA RestsStep ==
    ASSUME Assumed, OutboxTypeOK, PumpInv,
           UNCHANGED <<note, phone, registering, pump, pushes, lost, cut>>,
           begun' \in 0..MaxBegun, deaths' \in 0..MaxDeaths
    PROVE  OutboxTypeOK' /\ PumpInv' /\ RowsKept
PROOF
  <1>1. InHand' = InHand
    BY DEF InHand
  <1>2. ASSUME NEW n \in Notes \ cut, NEW d \in Phones PROVE Pushed(n, d)'
    BY <1>1, PumpSays DEF Pushed, Sending, Tries
  <1>3. PumpInv'
    BY <1>2, PumpSays DEF PumpInv, Pushed
  <1> QED BY <1>3 DEF OutboxTypeOK, RowsKept

\* What is written is no row of a batch, nor one that was pushed.
LEMMA WriteStep ==
    ASSUME Assumed, OutboxTypeOK, PumpInv, NEW users \in SUBSET Users,
           NEW about \in Subjects, NEW who, Write(users, about, who), begun' \in 0..MaxBegun
    PROVE  OutboxTypeOK' /\ PumpInv'
PROOF
  <1>1. UNCHANGED <<phone, registering, pump, pushes, lost, deaths, cut>>
    BY DEF Write
  <1>2. /\ note' \in [Notes -> NoteRow]
        /\ \A n \in Notes : note'[n] = note[n] \/ /\ note[n] = Blank
                                                  /\ note'[n].state = "pending"
    <2>1. Tell(users, about)
      BY DEF Write
    <2>2. \A u : NewRow(u, about).state = "pending"
      BY DEF NewRow
    <2> QED BY <2>1, <2>2, TellRows
  <1>3. InHand' = InHand
    BY <1>1 DEF InHand
  <1>4. pump.batch # {} => InHand \in pump.batch
    BY HeadOfBatch
  <1>5. Blank.state = "none"
    BY DEF Blank
  <1>6. \A n \in pump.batch : n \in Notes /\ note'[n] = note[n]
    BY <1>2, <1>5, PumpSays DEF PumpRow
  <1>7. ASSUME NEW n \in Notes \ cut, NEW d \in Phones PROVE Pushed(n, d)'
    <2>1. Pushed(n, d) /\ (Sending(n)' <=> Sending(n)) /\ pushes[<<n, d>>] \in Nat
      BY <1>1, <1>3, PumpSays DEF Sending
    <2>2. CASE note'[n] = note[n]
      BY <1>1, <2>1, <2>2 DEF Pushed, Tries
    <2>3. CASE note'[n] # note[n]
      <3>1. n \notin pump.batch /\ note[n].state = "none"
        BY <1>2, <1>5, <1>6, <2>3
      <3>2. ~Sending(n)
        BY <1>4, <3>1, PumpSays DEF Sending
      <3>3. Tries(n, d) = 0 /\ Tries(n, d)' = note'[n].attempts /\ note'[n].attempts \in Nat
        BY <1>2, <2>1, <2>3, <3>2, PumpSays DEF Tries, Blank, NoteRow
      <3> QED BY <1>1, <2>1, <3>1, <3>2, <3>3, PumpSays DEF Pushed
    <2> QED BY <2>2, <2>3
  <1>8. OutboxTypeOK'
    BY <1>1, <1>2 DEF OutboxTypeOK, NoteRow
  <1>9. PumpInv'
    <2>1. \A n \in pump'.batch : note'[n].state = "pending" /\ note'[n].attempts < MaxAttempts
      BY <1>1, <1>6, PumpSays
    <2>2. \A n \in Notes : note'[n].state = "none" => note'[n] = Blank
      BY <1>2, PumpSays
    <2> QED BY <1>1, <1>7, <2>1, <2>2, PumpSays DEF PumpInv, Pushed
  <1> QED BY <1>8, <1>9

\* Nobody is told of anything.
LEMMA ToldKept ==
    ASSUME RowsKept
    PROVE  \A u, s : Told(u, s)' = Told(u, s)
  BY DEF RowsKept, Told

LEMMA MineKept ==
    ASSUME RowsKept, UNCHANGED by
    PROVE  \A k, u, s : Mine(k, u, s)' = Mine(k, u, s)
  BY ToldKept DEF Mine

\* User u is told of one thing in row m, which told nothing before.
ToldIn(m, u, about, who) ==
    /\ \A x \in Users : \A s : m \notin Told(x, s)
    /\ \A x \in Users : \A s : Told(x, s)' =
          IF x = u /\ s = about THEN Told(x, s) \cup {m} ELSE Told(x, s)
    /\ \A k, x, s : Mine(k, x, s) \subseteq Told(x, s)
    /\ \A k \in Workers, x \in Users : \A s : Mine(k, x, s)' =
          IF k = who /\ x = u /\ s = about THEN Mine(k, x, s) \cup {m} ELSE Mine(k, x, s)
    /\ by' \in [Notes -> Workers \cup {Nobody}]
    /\ fresh' \subseteq fresh \cup {m} /\ (about \notin Juz => fresh' = fresh)

LEMMA OneToldMore ==
    ASSUME Assumed, OutboxTypeOK, PumpInv, NEW u \in Users, NEW about \in Subjects,
           by \in [Notes -> Workers \cup {Nobody}], NEW who \in Workers \cup {Nobody},
           Write({u}, about, who)
    PROVE  \E m \in Notes : ToldIn(m, u, about, who)
PROOF
  <1>1. PICK m \in Notes : note[m] = Blank /\ note' = [note EXCEPT ![m] = NewRow(u, about)]
    BY TellsOneRow DEF Write
  <1>2. Nobody \notin Users
    BY DEF Assumed, OutboxAssumption
  <1>3. /\ note'[m].user = u /\ note'[m].about = about /\ note[m].user = Nobody
        /\ \A n \in Notes \ {m} : note'[n] = note[n]
    BY <1>1, PumpSays DEF NewRow, Blank
  <1>4. /\ fresh' = fresh \cup {n \in Notes : note'[n] # note[n] /\ about \in Juz}
        /\ by' = [n \in Notes |-> IF note'[n] # note[n] THEN who ELSE by[n]]
    BY DEF Write
  <1>5. /\ by'[m] = who /\ \A n \in Notes \ {m} : by'[n] = by[n]
        /\ by' \in [Notes -> Workers \cup {Nobody}]
    BY <1>2, <1>3, <1>4
  <1>6. /\ \A x \in Users : \A s : m \notin Told(x, s)
        /\ \A x \in Users : \A s : Told(x, s)' =
              IF x = u /\ s = about THEN Told(x, s) \cup {m} ELSE Told(x, s)
    BY <1>2, <1>3 DEF Told
  <1>7. ASSUME NEW k \in Workers, NEW x \in Users, NEW s
        PROVE  Mine(k, x, s)' = IF k = who /\ x = u /\ s = about THEN Mine(k, x, s) \cup {m}
                                                               ELSE Mine(k, x, s)
    <2>1. Mine(k, x, s)' = {n \in Told(x, s)' : by'[n] = k} /\ Told(x, s) \subseteq Notes
      BY DEF Mine, Told
    <2>2. m \notin Told(x, s) /\ Mine(k, x, s) = {n \in Told(x, s) : by[n] = k}
      BY <1>6 DEF Mine
    <2>3. CASE x = u /\ s = about
      <3>1. Told(x, s)' = Told(x, s) \cup {m}
        BY <1>6, <2>3
      <3> QED BY <1>5, <2>1, <2>2, <2>3, <3>1
    <2>4. CASE ~(x = u /\ s = about)
      <3>1. Told(x, s)' = Told(x, s)
        BY <1>6, <2>4
      <3> QED BY <1>5, <2>1, <2>2, <2>4, <3>1
    <2> QED BY <2>3, <2>4
  <1>8. \A k, x, s : Mine(k, x, s) \subseteq Told(x, s)
    BY DEF Mine
  <1>9. fresh' \subseteq fresh \cup {m} /\ (about \notin Juz => fresh' = fresh)
    BY <1>3, <1>4
  <1> QED BY <1>5, <1>6, <1>7, <1>8, <1>9 DEF ToldIn

\* Many are told, but of nothing else.
LEMMA ManyTold ==
    ASSUME Assumed, OutboxTypeOK, PumpInv, NEW users \in SUBSET Users, NEW about \in Subjects,
           by \in [Notes -> Workers \cup {Nobody}], NEW who \in Workers \cup {Nobody},
           Write(users, about, who)
    PROVE  /\ \A x \in Users : \A s : s # about => Told(x, s)' = Told(x, s)
           /\ \A x \in Users : \A k, s : s # about => Mine(k, x, s)' = Mine(k, x, s)
           /\ by' \in [Notes -> Workers \cup {Nobody}]
           /\ fresh' \subseteq Notes \cup fresh /\ (about \notin Juz => fresh' = fresh)
PROOF
  <1>1. ASSUME NEW n \in Notes
        PROVE  \/ note'[n] = note[n]
               \/ note[n].user = Nobody /\ note'[n].about = about
    <2>1. Tell(users, about)
      BY DEF Write
    <2>2. Blank.user = Nobody /\ \A u : NewRow(u, about).about = about
      BY DEF Blank, NewRow
    <2> QED BY <2>1, <2>2, TellRows
  <1>2. Nobody \notin Users
    BY DEF Assumed, OutboxAssumption
  <1>3. /\ fresh' = fresh \cup {n \in Notes : note'[n] # note[n] /\ about \in Juz}
        /\ by' = [n \in Notes |-> IF note'[n] # note[n] THEN who ELSE by[n]]
    BY DEF Write
  <1>4. \A x \in Users : \A s : s # about => Told(x, s)' = Told(x, s)
    BY <1>1, <1>2 DEF Told
  <1>5. ASSUME NEW k, NEW x \in Users, NEW s, s # about PROVE Mine(k, x, s)' = Mine(k, x, s)
    <2>1. \A n \in Told(x, s) : n \in Notes /\ note'[n] = note[n]
      BY <1>1, <1>2 DEF Told
    <2>2. \A n \in Told(x, s) : by'[n] = by[n]
      BY <1>3, <2>1
    <2> QED BY <1>4, <1>5, <2>2 DEF Mine
  <1>6. by' \in [Notes -> Workers \cup {Nobody}]
    BY <1>3
  <1>7. fresh' \subseteq Notes \cup fresh /\ (about \notin Juz => fresh' = fresh)
    BY <1>3
  <1> QED BY <1>4, <1>5, <1>6, <1>7

-----------------------------------------------------------------------------
(* The inbox: who is asked and who has agreed *)

TaskRow == [at : {"idle", "assign", "accept", "tell"}, user : Ustadz \cup {Nobody},
            group : Groups \cup {Nothing}, to : SUBSET Users]

Agreed(g) == group[g].ustadz # Nobody => <<g, group[g].ustadz>> \in consent
Telling(p, g, u) == task[p].at = "tell" /\ task[p].group = g /\ u \in task[p].to
AskedIsTold(g) ==
    group[g].pending # Nobody =>
        \/ Told(group[g].pending, g) # {} \/ <<g, group[g].pending>> \in untold
        \/ \E p \in Requests : Telling(p, g, group[g].pending)
Knows(p) ==
    task[p].at # "idle" =>
        /\ task[p].group \in Groups
        /\ task[p].at = "assign" => task[p].user \in Ustadz /\ task[p].to = {task[p].user}
        /\ task[p].at = "accept" => /\ task[p].user \in Ustadz
                                    /\ <<task[p].group, task[p].user>> \in consent

\* AgreeInv, by its parts; and in any state, so that it is said of the next one.
AgreeParts == /\ \A g \in Groups : Agreed(g) /\ AskedIsTold(g)
              /\ \A p \in Requests : Knows(p)

LEMMA AgreeSays == AgreeInv <=> AgreeParts
  BY DEF AgreeInv, PembinaHasAgreed, NoticeAt, AgreeParts, Agreed, AskedIsTold,
         Telling, Knows

\* The types of what requests and jobs keep.
LEMMA NoticeTypes ==
    ASSUME Assumed, NoticesTypeOK
    PROVE  /\ OutboxTypeOK
           /\ group \in [Groups -> [ustadz : Ustadz \cup {Nobody}, pending : Ustadz \cup {Nobody}]]
           /\ task \in [Requests -> TaskRow]
           /\ consent \subseteq Groups \X Ustadz /\ untold \subseteq Groups \X Ustadz
           /\ fresh \subseteq Notes
           /\ Admins \subseteq Users /\ Ustadz \subseteq Users /\ Nobody \notin Users
           /\ Groups \subseteq Subjects /\ Visits \subseteq Subjects /\ Juz \subseteq Subjects
           /\ by \in [Notes -> Workers \cup {Nobody}]
  BY DEF NoticesTypeOK, TaskRow, Assumed, NoticesAssumption, OutboxAssumption

\* Whoever was asked for a group stays told, or to be told by somebody.
LEMMA AskedKept ==
    ASSUME Assumed, NoticesTypeOK, NEW g \in Groups, AskedIsTold(g),
           group'[g].pending = group[g].pending, untold \subseteq untold',
           \A u \in Ustadz : Told(u, g) # {} => Told(u, g)' # {},
           \A p \in Requests, u \in Ustadz : Telling(p, g, u) =>
               Telling(p, g, u)' \/ Told(u, g)' # {} \/ <<g, u>> \in untold'
    PROVE  AskedIsTold(g)'
PROOF
  <1>1. SUFFICES ASSUME NEW u \in Ustadz, u = group[g].pending, u # Nobody
                 PROVE  \/ Told(u, g)' # {} \/ <<g, u>> \in untold'
                        \/ \E p \in Requests : Telling(p, g, u)'
    <2>1. group[g].pending # Nobody => group[g].pending \in Ustadz
      BY NoticeTypes
    <2> QED BY <2>1 DEF AskedIsTold, Telling, Told
  <1>2. Told(u, g) # {} \/ <<g, u>> \in untold \/ \E p \in Requests : Telling(p, g, u)
    BY <1>1 DEF AskedIsTold
  <1> QED BY <1>2

\* A step that leaves the groups and the requests alone, and untells nobody.
LEMMA AgreeKept ==
    ASSUME Assumed, NoticesTypeOK, AgreeInv, UNCHANGED <<group, task, consent, untold>>,
           \A u \in Ustadz, g \in Groups : Told(u, g) # {} => Told(u, g)' # {}
    PROVE  AgreeInv'
PROOF
  <1>1. AgreeParts
    BY AgreeSays
  <1>2. \A g \in Groups, p \in Requests, u \in Ustadz : Telling(p, g, u) => Telling(p, g, u)'
    BY DEF Telling
  <1>3. \A g \in Groups : AskedIsTold(g)'
    BY <1>1, <1>2, AskedKept DEF AgreeParts
  <1>4. AgreeParts'
    BY <1>1, <1>3 DEF AgreeParts, Agreed, Knows
  <1> QED BY <1>4, AgreeSays, PTL

\* A step of one request.
LEMMA AgreeStep ==
    ASSUME Assumed, NoticesTypeOK, AgreeInv, NEW p \in Requests,
           \A q \in Requests \ {p} : task'[q] = task[q],
           consent \subseteq consent', Knows(p)', \A g \in Groups : Agreed(g)' /\ AskedIsTold(g)'
    PROVE  AgreeInv'
PROOF
  <1>1. AgreeParts
    BY AgreeSays
  <1>2. \A q \in Requests : Knows(q)'
    BY <1>1 DEF AgreeParts, Knows
  <1>3. AgreeParts'
    BY <1>2 DEF AgreeParts
  <1> QED BY <1>3, AgreeSays, PTL

-----------------------------------------------------------------------------
(* The inbox: who is reminded *)

JobRow == [at : {"idle", "check", "santri", "ustadz", "nudgeCheck", "nudge"},
           left : SUBSET (Visits \cup Juz), one : Visits \cup Juz \cup {Nothing}]

Due(u, v) == AsSantri(u, v) + AsLeader(u, v)

\* What is said of the notes of one worker, and of its job.
Once(k) ==
    /\ \A v \in Visits, u \in Users : Cardinality(Mine(k, u, v)) <= Due(u, v)
    /\ \A j \in Juz : Cardinality(Mine(k, Reader[j], j) \cap fresh) <= 1
JobKnows(k) ==
    /\ job[k].at \in {"santri", "ustadz"} => job[k].one \in Visits
    /\ job[k].at = "santri" => \A u \in Users : Mine(k, u, job[k].one) = {}
    /\ job[k].at = "ustadz" => \A u \in Users :
          Cardinality(Mine(k, u, job[k].one)) <= AsSantri(u, job[k].one)
    /\ job[k].at = "nudge"  =>
          job[k].one \in Juz /\ Mine(k, Reader[job[k].one], job[k].one) \cap fresh = {}

RemindParts == \A k \in Workers : Once(k) /\ JobKnows(k)

LEMMA RemindSays == RemindInv <=> RemindParts
PROOF
  <1>1. \A k, j : {n \in Told(Reader[j], j) \cap fresh : by[n] = k}
                    = Mine(k, Reader[j], j) \cap fresh
    BY DEF Mine
  <1>2. \A k, u, v : {n \in Told(u, v) : by[n] = k} = Mine(k, u, v)
    BY DEF Mine
  <1>3. RemindedOnce <=> \A k \in Workers : Once(k)
    BY <1>1, <1>2 DEF RemindedOnce, Once, Due
  <1> QED BY <1>3 DEF RemindInv, RemindParts, JobKnows

\* Rows are finitely many, and so are those told to one user.
LEMMA FewTold ==
    ASSUME Assumed, NEW k, NEW u, NEW s
    PROVE  /\ IsFiniteSet(Mine(k, u, s)) /\ Cardinality(Mine(k, u, s)) \in Nat
           /\ IsFiniteSet(Mine(k, u, s) \cap fresh)
PROOF
  <1>1. IsFiniteSet(Notes)
    BY DEF Assumed, OutboxAssumption
  <1>2. Mine(k, u, s) \in SUBSET Notes /\ Mine(k, u, s) \cap fresh \in SUBSET Notes
    BY DEF Mine, Told
  <1> QED BY <1>1, <1>2, FS_Subset, FS_CardinalityType

\* A smaller set is no bigger.
LEMMA NoMore ==
    ASSUME NEW S, IsFiniteSet(S), NEW T \in SUBSET S, NEW k \in Nat, Cardinality(S) <= k
    PROVE  Cardinality(T) <= k
  BY FS_Subset, FS_CardinalityType

\* A step by which worker k tells nobody of a visit or a juz, and does not move.
LEMMA RemindKept ==
    ASSUME Assumed, NEW k \in Workers, Once(k), JobKnows(k), job'[k] = job[k],
           \A v \in Visits, u \in Users : Mine(k, u, v)' = Mine(k, u, v),
           \A j \in Juz : (Mine(k, Reader[j], j) \cap fresh)' \subseteq Mine(k, Reader[j], j) \cap fresh
    PROVE  Once(k)' /\ JobKnows(k)'
PROOF
  <1>1. ASSUME NEW j \in Juz PROVE Cardinality((Mine(k, Reader[j], j) \cap fresh)') <= 1
    <2>1. /\ IsFiniteSet(Mine(k, Reader[j], j) \cap fresh)
          /\ Cardinality(Mine(k, Reader[j], j) \cap fresh) <= 1
      BY FewTold DEF Once
    <2> QED BY <2>1, NoMore
  <1>2. Once(k)'
    <2>1. ASSUME NEW v \in Visits, NEW u \in Users PROVE Cardinality(Mine(k, u, v)') <= Due(u, v)
      BY DEF Once
    <2> QED BY <1>1, <2>1 DEF Once, Due, AsSantri, AsLeader
  <1>3. JobKnows(k)'
    <2>1. CASE job[k].at = "santri"
      <3>1. PICK v \in Visits : v = job[k].one
        BY <2>1 DEF JobKnows
      <3>2. \A u \in Users : Mine(k, u, v)' = {}
        BY <2>1, <3>1 DEF JobKnows
      <3>3. \A u \in Users : Mine(k, u, job[k].one)' = {}
        BY <3>1, <3>2 DEF Mine, Told
      <3> QED BY <2>1, <3>1, <3>3 DEF JobKnows
    <2>2. CASE job[k].at = "ustadz"
      <3>1. PICK v \in Visits : v = job[k].one
        BY <2>2 DEF JobKnows
      <3>2. \A u \in Users : Cardinality(Mine(k, u, v)') <= AsSantri(u, v)
        BY <2>2, <3>1 DEF JobKnows
      <3>3. \A u \in Users : Cardinality(Mine(k, u, job[k].one)') <= AsSantri(u, job[k].one)'
        BY <3>1, <3>2 DEF Mine, Told, AsSantri
      <3> QED BY <2>2, <3>1, <3>3 DEF JobKnows
    <2>3. CASE job[k].at = "nudge"
      <3>1. PICK j \in Juz : j = job[k].one
        BY <2>3 DEF JobKnows
      <3>2. (Mine(k, Reader[j], j) \cap fresh)' = {}
        BY <2>3, <3>1 DEF JobKnows
      <3>3. (Mine(k, Reader[job[k].one], job[k].one) \cap fresh)' = {}
        BY <3>1, <3>2 DEF Mine, Told
      <3> QED BY <2>3, <3>1, <3>3 DEF JobKnows
    <2>4. CASE job[k].at \notin {"santri", "ustadz", "nudge"}
      BY <2>4 DEF JobKnows
    <2> QED BY <2>1, <2>2, <2>3, <2>4
  <1> QED BY <1>2, <1>3

\* The same of all workers.
LEMMA RemindsKept ==
    ASSUME Assumed, RemindInv, UNCHANGED job,
           \A k \in Workers, v \in Visits, u \in Users : Mine(k, u, v)' = Mine(k, u, v),
           \A k \in Workers, j \in Juz :
              (Mine(k, Reader[j], j) \cap fresh)' \subseteq Mine(k, Reader[j], j) \cap fresh
    PROVE  RemindInv'
PROOF
  <1>1. RemindParts
    BY RemindSays
  <1>2. ASSUME NEW k \in Workers PROVE Once(k)' /\ JobKnows(k)'
    BY <1>1, RemindKept DEF RemindParts
  <1>3. RemindParts'
    BY <1>2 DEF RemindParts
  <1> QED BY <1>3, RemindSays, PTL

-----------------------------------------------------------------------------
(* The inbox: the steps of requests *)

GroupRow == [ustadz : Ustadz \cup {Nobody}, pending : Ustadz \cup {Nobody}]

NoticesTyped ==
    /\ group \in [Groups -> GroupRow] /\ task \in [Requests -> TaskRow]
    /\ consent \subseteq Groups \X Ustadz /\ untold \subseteq Groups \X Ustadz
    /\ fresh \subseteq Notes /\ job \in [Workers -> JobRow]
    /\ by \in [Notes -> Workers \cup {Nobody}]

LEMMA NoticesTypes == NoticesTypeOK <=> OutboxTypeOK /\ NoticesTyped
  BY DEF NoticesTypeOK, NoticesTyped, GroupRow, TaskRow, JobRow

\* A request goes on to task t and leaves the inbox alone.  Whom it asks it tells
\* next, and whom it had to tell it has still to tell, or they count as untold.
LEMMA RequestStepInv ==
    ASSUME Assumed, NoticesInv, NEW p \in Requests, NEW t \in TaskRow,
           task' = [task EXCEPT ![p] = t],
           UNCHANGED <<note, phone, registering, pump, pushes, lost, cut, fresh, job, by>>,
           begun' \in 0..MaxBegun, deaths' \in 0..MaxDeaths,
           group' \in [Groups -> GroupRow],
           consent \subseteq consent', consent' \subseteq Groups \X Ustadz,
           untold \subseteq untold', untold' \subseteq Groups \X Ustadz,
           Knows(p)', \A g \in Groups : Agreed(g)',
           \A g \in Groups :
               \/ group'[g].pending \in {group[g].pending, Nobody}
               \/ t.at = "tell" /\ t.group = g /\ group'[g].pending \in t.to,
           \A g \in Groups, u \in Ustadz : Telling(p, g, u) =>
               \/ t.at = "tell" /\ t.group = g /\ u \in t.to
               \/ <<g, u>> \in untold'
    PROVE  NoticesInv'
PROOF
  <1>1. /\ NoticesTypeOK /\ OutboxTypeOK /\ PumpInv /\ NoticesTyped
        /\ AgreeInv /\ RemindInv /\ AgreeParts
    BY NoticesTypes, AgreeSays DEF NoticesInv
  <1>2. OutboxTypeOK' /\ PumpInv' /\ RowsKept
    BY <1>1, RestsStep
  <1>3. task'[p] = t /\ \A q \in Requests \ {p} : task'[q] = task[q]
    BY <1>1 DEF NoticesTyped
  <1>4. NoticesTyped'
    BY <1>1 DEF NoticesTyped
  <1>5. \A u, s : Told(u, s)' = Told(u, s)
    BY <1>2, ToldKept
  <1>6. ASSUME NEW g \in Groups PROVE AskedIsTold(g)'
    <2>1. CASE group'[g].pending = group[g].pending
      <3>1. \A q \in Requests, u \in Ustadz : Telling(q, g, u) =>
               Telling(q, g, u)' \/ <<g, u>> \in untold'
        BY <1>3 DEF Telling
      <3>2. AskedIsTold(g)
        BY <1>1 DEF AgreeParts
      <3> QED BY <1>1, <1>5, <2>1, <3>1, <3>2, AskedKept
    <2>2. CASE group'[g].pending = Nobody
      BY <2>2 DEF AskedIsTold
    <2>3. CASE t.at = "tell" /\ t.group = g /\ group'[g].pending \in t.to
      BY <1>3, <2>3 DEF AskedIsTold, Telling
    <2> QED BY <2>1, <2>2, <2>3
  <1>7. AgreeInv'
    BY <1>1, <1>3, <1>6, AgreeStep
  <1>8. RemindInv'
    BY <1>1, <1>2, MineKept, RemindsKept
  <1> QED BY <1>2, <1>4, <1>7, <1>8, NoticesTypes, PTL DEF NoticesInv

\* A request begins.
LEMMA BeginStep ==
    ASSUME Assumed, NoticesInv, NEW p \in Requests, NEW g \in Groups, NEW u \in Ustadz,
           admin_assign(p, g, u) \/ accept_group(p, g, u) \/ reject_group(p, g, u)
    PROVE  NoticesInv'
PROOF
  <1>1. /\ NoticesTypeOK /\ OutboxTypeOK /\ PumpInv /\ NoticesTyped /\ AgreeParts
    BY NoticesTypes, AgreeSays DEF NoticesInv
  <1>2. /\ UNCHANGED <<note, phone, registering, pump, pushes, lost, cut, untold, fresh, job, by, deaths>>
        /\ task[p] = NoticeIdle /\ begun' = begun + 1 /\ begun < MaxBegun
    BY DEF admin_assign, accept_group, reject_group, NoticeBegin,
           OutboxRests, MayBegin
  <1>3. begun' \in 0..MaxBegun /\ deaths' \in 0..MaxDeaths
    BY <1>1, <1>2, PumpSays DEF Assumed, OutboxAssumption
  <1>4. \A h \in Groups, w \in Ustadz : ~Telling(p, h, w)
    BY <1>2 DEF Telling, NoticeIdle
  <1>5. /\ \A h \in Groups : Agreed(h) /\ group[h] \in GroupRow
        /\ u \in Users /\ {u} \in SUBSET Users /\ Admins \in SUBSET Users
        /\ consent \subseteq Groups \X Ustadz /\ untold \subseteq Groups \X Ustadz
        /\ group \in [Groups -> GroupRow]
    BY <1>1, NoticeTypes DEF AgreeParts, NoticesTyped
  <1>6. CASE admin_assign(p, g, u)
    <2> DEFINE t == [at |-> "assign", user |-> u, group |-> g, to |-> {u}]
    <2>1. /\ task' = [task EXCEPT ![p] = t] /\ UNCHANGED <<group, consent>>
      BY <1>6 DEF admin_assign, NoticeBegin
    <2>2. t \in TaskRow /\ task'[p] = t
      BY <1>1, <1>5, <2>1 DEF TaskRow, NoticesTyped
    <2>3. Knows(p)'
      BY <2>2 DEF Knows
    <2>4. \A h \in Groups : Agreed(h)'
      BY <1>5, <2>1 DEF Agreed
    <2> HIDE DEF t
    <2> QED BY <1>2, <1>3, <1>4, <1>5, <2>1, <2>2, <2>3, <2>4, RequestStepInv
  <1>7. CASE accept_group(p, g, u)
    <2> DEFINE t == [at |-> "accept", user |-> u, group |-> g, to |-> Admins]
    <2>1. /\ task' = [task EXCEPT ![p] = t] /\ group' = group
          /\ consent' = consent \cup {<<g, u>>}
      BY <1>7 DEF accept_group, NoticeBegin
    <2>2. t \in TaskRow /\ task'[p] = t
      BY <1>1, <1>5, <2>1 DEF TaskRow, NoticesTyped
    <2>3. Knows(p)'
      BY <2>1, <2>2 DEF Knows
    <2>4. \A h \in Groups : Agreed(h)'
      BY <1>5, <2>1 DEF Agreed
    <2>5. consent' \subseteq Groups \X Ustadz
      BY <1>5, <2>1
    <2> HIDE DEF t
    <2> QED BY <1>2, <1>3, <1>4, <1>5, <2>1, <2>2, <2>3, <2>4, <2>5, RequestStepInv
  <1>8. CASE reject_group(p, g, u)
    <2> DEFINE t == [at |-> "tell", user |-> u, group |-> g, to |-> Admins]
    <2>1. /\ task' = [task EXCEPT ![p] = t] /\ consent' = consent
          /\ group' = [group EXCEPT ![g].pending = Nobody]
      BY <1>8 DEF reject_group, NoticeBegin
    <2>2. t \in TaskRow /\ task'[p] = t
      BY <1>1, <1>5, <2>1 DEF TaskRow, NoticesTyped
    <2>3. Knows(p)'
      BY <2>2 DEF Knows
    <2>4. /\ group' \in [Groups -> GroupRow]
          /\ \A h \in Groups : /\ group'[h].ustadz = group[h].ustadz
                               /\ group'[h].pending \in {group[h].pending, Nobody}
      BY <1>5, <2>1 DEF GroupRow
    <2>5. \A h \in Groups : Agreed(h)'
      BY <1>5, <2>1, <2>4 DEF Agreed
    <2> HIDE DEF t
    <2> QED BY <1>2, <1>3, <1>4, <1>5, <2>1, <2>2, <2>3, <2>4, <2>5, RequestStepInv
  <1> QED BY <1>6, <1>7, <1>8

\* The ustadz is asked, and told next.
LEMMA AssignStep ==
    ASSUME Assumed, NoticesInv, NEW p \in Requests, Assign(p)
    PROVE  NoticesInv'
PROOF
  <1>1. /\ NoticesTypeOK /\ OutboxTypeOK /\ PumpInv /\ NoticesTyped /\ AgreeParts
    BY NoticesTypes, AgreeSays DEF NoticesInv
  <1> DEFINE g == task[p].group
             u == task[p].user
             t == [task[p] EXCEPT !.at = "tell"]
  <1>2. /\ task[p].at = "assign"
        /\ group' = [group EXCEPT ![g].pending = u]
        /\ task' = [task EXCEPT ![p] = t]
        /\ UNCHANGED <<note, phone, registering, pump, pushes, lost, cut, begun, deaths, consent, untold,
                       fresh, job, by>>
    BY DEF Assign, NoticeAt, outboxVars
  <1>3. g \in Groups /\ u \in Ustadz /\ task[p].to = {u} /\ task[p] \in TaskRow
    BY <1>1, <1>2 DEF AgreeParts, Knows, NoticesTyped
  <1>4. /\ t \in TaskRow /\ t.at = "tell" /\ t.group = g /\ t.to = {u} /\ task'[p] = t
    BY <1>1, <1>2, <1>3 DEF TaskRow, NoticesTyped
  <1>5. begun' \in 0..MaxBegun /\ deaths' \in 0..MaxDeaths
    BY <1>1, <1>2, PumpSays
  <1>6. group \in [Groups -> GroupRow] /\ consent \subseteq Groups \X Ustadz /\ untold \subseteq Groups \X Ustadz
    BY <1>1 DEF NoticesTyped
  <1>7. /\ group' \in [Groups -> GroupRow]
        /\ \A h \in Groups : /\ group'[h].ustadz = group[h].ustadz
                             /\ group'[h].pending = IF h = g THEN u ELSE group[h].pending
    <2> HIDE DEF g, u
    <2> QED BY <1>2, <1>3, <1>6 DEF GroupRow
  <1>8. \A h \in Groups : Agreed(h)'
    BY <1>1, <1>2, <1>7 DEF AgreeParts, Agreed
  <1>9. Knows(p)'
    BY <1>3, <1>4 DEF Knows
  <1>10. \A h \in Groups, w \in Ustadz : ~Telling(p, h, w)
    BY <1>2 DEF Telling
  <1> HIDE DEF t, g, u
  <1>11. \A h \in Groups : \/ group'[h].pending \in {group[h].pending, Nobody}
                           \/ t.at = "tell" /\ t.group = h /\ group'[h].pending \in t.to
    BY <1>4, <1>7
  <1> QED BY <1>2, <1>4, <1>5, <1>6, <1>7, <1>8, <1>9, <1>10, <1>11, RequestStepInv

\* The ustadz who accepts is still the one asked, or nothing happens.
LEMMA AcceptStep ==
    ASSUME Assumed, NoticesInv, NEW p \in Requests, Accept(p)
    PROVE  NoticesInv'
PROOF
  <1>1. /\ NoticesTypeOK /\ OutboxTypeOK /\ PumpInv /\ NoticesTyped /\ AgreeParts
    BY NoticesTypes, AgreeSays DEF NoticesInv
  <1> DEFINE g == task[p].group
             u == task[p].user
  <1>2. /\ task[p].at = "accept"
        /\ UNCHANGED <<note, phone, registering, pump, pushes, lost, cut, begun, deaths, consent, untold,
                       fresh, job, by>>
    BY DEF Accept, NoticeAt, outboxVars
  <1>3. g \in Groups /\ u \in Ustadz /\ <<g, u>> \in consent /\ task[p] \in TaskRow
    BY <1>1, <1>2 DEF AgreeParts, Knows, NoticesTyped
  <1>4. begun' \in 0..MaxBegun /\ deaths' \in 0..MaxDeaths
    BY <1>1, <1>2, PumpSays
  <1>5. group \in [Groups -> GroupRow] /\ consent \subseteq Groups \X Ustadz /\ untold \subseteq Groups \X Ustadz
    BY <1>1 DEF NoticesTyped
  <1>6. \A h \in Groups, w \in Ustadz : ~Telling(p, h, w)
    BY <1>2 DEF Telling
  <1>7. CASE group[g].pending = u
    <2> DEFINE t == [task[p] EXCEPT !.at = "tell"]
    <2>1. /\ group' = [group EXCEPT ![g] = [ustadz |-> group[g].pending, pending |-> Nobody]]
          /\ task' = [task EXCEPT ![p] = t]
      BY <1>7 DEF Accept
    <2>2. t \in TaskRow /\ task'[p] = t /\ t.at = "tell" /\ t.group = g
      BY <1>1, <1>3, <2>1 DEF TaskRow, NoticesTyped
    <2>3. /\ group' \in [Groups -> GroupRow]
          /\ \A h \in Groups :
                /\ group'[h].ustadz = IF h = g THEN u ELSE group[h].ustadz
                /\ group'[h].pending \in {group[h].pending, Nobody}
      <3> HIDE DEF g, u
      <3> QED BY <1>3, <1>5, <1>7, <2>1 DEF GroupRow
    <2>4. \A h \in Groups : Agreed(h)'
      <3>1. \A h \in Groups : Agreed(h)
        BY <1>1 DEF AgreeParts
      <3> HIDE DEF g, u
      <3> QED BY <1>2, <1>3, <2>3, <3>1 DEF Agreed
    <2>5. Knows(p)'
      BY <1>3, <2>2 DEF Knows
    <2> HIDE DEF t, g, u
    <2> QED BY <1>2, <1>4, <1>5, <1>6, <2>1, <2>2, <2>3, <2>4, <2>5, RequestStepInv
  <1>8. CASE group[g].pending # u
    <2>1. task' = [task EXCEPT ![p] = NoticeIdle] /\ group' = group
      BY <1>8 DEF Accept, NoticeEnd
    <2>2. NoticeIdle \in TaskRow /\ task'[p] = NoticeIdle
      BY <1>1, <2>1 DEF NoticeIdle, TaskRow, NoticesTyped
    <2>3. Knows(p)'
      BY <2>2 DEF Knows, NoticeIdle
    <2>4. \A h \in Groups : Agreed(h)'
      BY <1>1, <1>2, <2>1 DEF AgreeParts, Agreed
    <2> HIDE DEF g, u
    <2> QED BY <1>2, <1>4, <1>5, <1>6, <2>1, <2>2, <2>3, <2>4, RequestStepInv
  <1> QED BY <1>7, <1>8

\* A request dies: whom it had to tell is untold.
LEMMA DropStep ==
    ASSUME Assumed, NoticesInv, NEW p \in Requests, Drop(p)
    PROVE  NoticesInv'
PROOF
  <1>1. /\ NoticesTypeOK /\ OutboxTypeOK /\ PumpInv /\ NoticesTyped /\ AgreeParts
    BY NoticesTypes, AgreeSays DEF NoticesInv
  <1>2. /\ task' = [task EXCEPT ![p] = NoticeIdle]
        /\ untold' = untold \cup ({<<task[p].group, u>> : u \in task[p].to} \cap (Groups \X Ustadz))
        /\ deaths < MaxDeaths /\ deaths' = deaths + 1
        /\ UNCHANGED <<note, phone, registering, pump, pushes, lost, begun, cut, group, consent, fresh, job, by>>
    BY DEF Drop, NoticeEnd, Dies
  <1>3. begun' \in 0..MaxBegun /\ deaths' \in 0..MaxDeaths
    BY <1>1, <1>2, PumpSays DEF Assumed, OutboxAssumption
  <1>4. NoticeIdle \in TaskRow /\ task'[p] = NoticeIdle
    BY <1>1, <1>2 DEF NoticeIdle, TaskRow, NoticesTyped
  <1>5. Knows(p)'
    BY <1>4 DEF Knows, NoticeIdle
  <1>6. \A h \in Groups : Agreed(h)'
    BY <1>1, <1>2 DEF AgreeParts, Agreed
  <1>7. group \in [Groups -> GroupRow] /\ consent \subseteq Groups \X Ustadz /\ untold \subseteq Groups \X Ustadz
    BY <1>1 DEF NoticesTyped
  <1>8. untold \subseteq untold' /\ untold' \subseteq Groups \X Ustadz
    BY <1>2, <1>7
  <1>9. \A g \in Groups, u \in Ustadz : Telling(p, g, u) => <<g, u>> \in untold'
    BY <1>2 DEF Telling
  <1> QED BY <1>2, <1>3, <1>4, <1>5, <1>6, <1>7, <1>8, <1>9, RequestStepInv

\* Users are told one after the other.
LEMMA TellOneStep ==
    ASSUME Assumed, NoticesInv, NEW p \in Requests, TellOne(p)
    PROVE  NoticesInv'
PROOF
  <1>1. /\ NoticesTypeOK /\ OutboxTypeOK /\ PumpInv /\ NoticesTyped /\ AgreeParts
        /\ AgreeInv /\ RemindInv
    BY NoticesTypes, AgreeSays DEF NoticesInv
  <1> DEFINE g == task[p].group
  <1>2. PICK u \in task[p].to :
           /\ Write({u}, g, Nobody)
           /\ IF task[p].to = {u} THEN NoticeEnd(p)
              ELSE task' = [task EXCEPT ![p].to = @ \ {u}]
    BY DEF TellOne
  <1>3. task[p].at = "tell" /\ UNCHANGED <<group, begun, consent, untold, job>>
    BY DEF TellOne, NoticeAt
  <1>4. task[p] \in TaskRow /\ u \in Users /\ g \in Groups /\ g \in Subjects
    BY <1>1, <1>2, <1>3, NoticeTypes DEF NoticesTyped, TaskRow, AgreeParts, Knows
  <1>5. /\ \A q \in Requests \ {p} : task'[q] = task[q]
        /\ task' \in [Requests -> TaskRow]
        /\ \/ task'[p] = NoticeIdle /\ task[p].to = {u}
           \/ /\ task'[p].at = "tell" /\ task'[p].group = g /\ task'[p].to = task[p].to \ {u}
    <2>1. CASE task[p].to = {u}
      <3>1. NoticeIdle \in TaskRow
        BY DEF NoticeIdle, TaskRow
      <3>2. task' = [task EXCEPT ![p] = NoticeIdle]
        BY <1>2, <2>1 DEF NoticeEnd
      <3> QED BY <1>1, <2>1, <3>1, <3>2 DEF NoticesTyped
    <2>2. CASE task[p].to # {u}
      <3>1. task' = [task EXCEPT ![p] = [task[p] EXCEPT !.to = task[p].to \ {u}]]
        BY <1>1, <1>2, <2>2 DEF NoticesTyped, TaskRow
      <3>2. [task[p] EXCEPT !.to = task[p].to \ {u}] \in TaskRow
        BY <1>4 DEF TaskRow
      <3> QED BY <1>1, <1>3, <1>4, <3>1, <3>2 DEF NoticesTyped, TaskRow
    <2> QED BY <2>1, <2>2
  <1> HIDE DEF g
  <1>6. OutboxTypeOK' /\ PumpInv'
    <2>1. begun' \in 0..MaxBegun /\ {u} \in SUBSET Users
      BY <1>1, <1>3, <1>4, PumpSays
    <2> QED BY <1>1, <1>2, <1>4, <2>1, WriteStep
  <1>7. PICK m \in Notes :
           /\ \A w \in Users : \A s : Told(w, s)' =
                 IF w = u /\ s = g THEN Told(w, s) \cup {m} ELSE Told(w, s)
           /\ \A k \in Workers, w \in Users : \A s : s # g => Mine(k, w, s)' = Mine(k, w, s)
           /\ by' \in [Notes -> Workers \cup {Nobody}]
           /\ fresh' \subseteq fresh \cup {m} /\ (g \notin Juz => fresh' = fresh)
    <2>1. by \in [Notes -> Workers \cup {Nobody}]
      BY <1>1, NoticeTypes
    <2>2. PICK m \in Notes : ToldIn(m, u, g, Nobody)
      BY <1>1, <1>2, <1>4, <2>1, OneToldMore
    <2> QED BY <2>2 DEF ToldIn
  <1>8. g \notin Visits /\ g \notin Juz
    BY <1>4 DEF Assumed, NoticesAssumption
  <1>9. NoticesTyped'
    BY <1>1, <1>3, <1>5, <1>7, <1>8 DEF NoticesTyped
  <1>10. ASSUME NEW h \in Groups PROVE AskedIsTold(h)'
    <2>1. Ustadz \subseteq Users
      BY <1>1, NoticeTypes
    <2>2. \A w \in Ustadz : Told(w, h) # {} => Told(w, h)' # {}
      BY <1>7, <2>1
    <2>3. ASSUME NEW q \in Requests, NEW w \in Ustadz, Telling(q, h, w)
          PROVE  Telling(q, h, w)' \/ Told(w, h)' # {}
      <3>1. CASE q # p
        BY <1>5, <2>3, <3>1 DEF Telling
      <3>2. CASE q = p /\ w = u
        <4>1. h = g
          BY <2>3, <3>2 DEF Telling, g
        <4> QED BY <1>7, <2>1, <3>2, <4>1
      <3>3. CASE q = p /\ w # u
        BY <1>5, <2>3, <3>3 DEF Telling, g
      <3> QED BY <3>1, <3>2, <3>3
    <2>4. AskedIsTold(h) /\ group' = group /\ untold' = untold
      BY <1>1, <1>3 DEF AgreeParts
    <2> QED BY <1>1, <2>2, <2>3, <2>4, AskedKept
  <1>11. Knows(p)'
    BY <1>4, <1>5 DEF Knows, NoticeIdle
  <1>12. \A h \in Groups : Agreed(h)'
    BY <1>1, <1>3 DEF AgreeParts, Agreed
  <1>13. AgreeInv'
    BY <1>1, <1>3, <1>5, <1>10, <1>11, <1>12, AgreeStep
  <1>14. RemindInv'
    <2>1. \A k \in Workers, v \in Visits, w \in Users : Mine(k, w, v)' = Mine(k, w, v)
      BY <1>7, <1>8
    <2>2. Reader \in [Juz -> Users]
      BY DEF Assumed, NoticesAssumption
    <2>3. \A k \in Workers, j \in Juz :
             Mine(k, Reader[j], j)' = Mine(k, Reader[j], j) /\ fresh' = fresh
      BY <1>7, <1>8, <2>2
    <2> QED BY <1>1, <1>3, <2>1, <2>3, RemindsKept
  <1> QED BY <1>6, <1>9, <1>13, <1>14, NoticesTypes, PTL DEF NoticesInv

-----------------------------------------------------------------------------
(* The inbox: the steps of the reminder jobs *)

\* A step of jobs, or of the clock, that writes nothing: a worker that moves
\* knows what it did before.
LEMMA JobStepInv ==
    ASSUME Assumed, NoticesInv,
           UNCHANGED <<note, phone, registering, pump, pushes, lost, cut, group, task, consent,
                       untold, by>>,
           begun' \in 0..MaxBegun, deaths' \in 0..MaxDeaths, fresh' \subseteq fresh,
           job' \in [Workers -> JobRow], \A k \in Workers : job'[k] = job[k] \/ JobKnows(k)'
    PROVE  NoticesInv'
PROOF
  <1>1. /\ NoticesTypeOK /\ OutboxTypeOK /\ PumpInv /\ NoticesTyped
        /\ AgreeInv /\ RemindParts
    BY NoticesTypes, RemindSays DEF NoticesInv
  <1>2. OutboxTypeOK' /\ PumpInv' /\ RowsKept
    BY <1>1, RestsStep
  <1>3. /\ \A u, s : Told(u, s)' = Told(u, s)
        /\ \A k, u, s : Mine(k, u, s)' = Mine(k, u, s)
    BY <1>2, ToldKept, MineKept
  <1>4. NoticesTyped'
    BY <1>1 DEF NoticesTyped
  <1>5. AgreeInv'
    BY <1>1, <1>3, AgreeKept
  <1>6. ASSUME NEW k \in Workers PROVE Once(k)' /\ JobKnows(k)'
    <2>1. Once(k) /\ JobKnows(k)
      BY <1>1 DEF RemindParts
    <2>2. \A j \in Juz :
             (Mine(k, Reader[j], j) \cap fresh)' \subseteq Mine(k, Reader[j], j) \cap fresh
      BY <1>3
    <2>3. Once(k)'
      <3>1. ASSUME NEW j \in Juz PROVE Cardinality((Mine(k, Reader[j], j) \cap fresh)') <= 1
        <4>1. /\ IsFiniteSet(Mine(k, Reader[j], j) \cap fresh)
              /\ Cardinality(Mine(k, Reader[j], j) \cap fresh) <= 1
          BY <2>1, FewTold DEF Once
        <4> QED BY <2>2, <4>1, NoMore
      <3>2. ASSUME NEW v \in Visits, NEW u \in Users
            PROVE  Cardinality(Mine(k, u, v)') <= Due(u, v)
        BY <1>3, <2>1 DEF Once
      <3> QED BY <3>1, <3>2 DEF Once, Due, AsSantri, AsLeader
    <2>4. CASE job'[k] = job[k]
      BY <1>3, <2>1, <2>2, <2>4, RemindKept
    <2> QED BY <2>3, <2>4
  <1>7. RemindParts'
    BY <1>6 DEF RemindParts
  <1>8. RemindInv'
    BY <1>7, RemindSays, PTL
  <1> QED BY <1>2, <1>4, <1>5, <1>8, NoticesTypes, PTL DEF NoticesInv

\* A step by which worker k tells one user of a visit or a juz.
LEMMA JobWriteInv ==
    ASSUME Assumed, NoticesInv, NEW k \in Workers, NEW u \in Users, NEW about \in Visits \cup Juz,
           Write({u}, about, k), UNCHANGED <<group, task, begun, consent, untold>>,
           job' \in [Workers -> JobRow], \A q \in Workers \ {k} : job'[q] = job[q],
           Once(k)', JobKnows(k)'
    PROVE  NoticesInv'
PROOF
  <1>1. /\ NoticesTypeOK /\ OutboxTypeOK /\ PumpInv /\ NoticesTyped /\ AgreeInv /\ RemindParts
    BY NoticesTypes, RemindSays DEF NoticesInv
  <1>2. /\ about \in Subjects /\ about \notin Groups /\ {u} \in SUBSET Users /\ Ustadz \subseteq Users
        /\ by \in [Notes -> Workers \cup {Nobody}] /\ Reader \in [Juz -> Users]
    BY <1>1, NoticeTypes DEF Assumed, NoticesAssumption
  <1>3. begun' \in 0..MaxBegun
    BY <1>1, PumpSays
  <1>4. OutboxTypeOK' /\ PumpInv'
    BY <1>1, <1>2, <1>3, WriteStep
  <1>5. PICK m \in Notes :
           /\ \A w \in Users : \A s : m \notin Told(w, s)
           /\ \A w \in Users : \A s : Told(w, s)' =
                 IF w = u /\ s = about THEN Told(w, s) \cup {m} ELSE Told(w, s)
           /\ \A q, w, s : Mine(q, w, s) \subseteq Told(w, s)
           /\ \A q \in Workers, w \in Users : \A s : Mine(q, w, s)' =
                 IF q = k /\ w = u /\ s = about THEN Mine(q, w, s) \cup {m} ELSE Mine(q, w, s)
           /\ by' \in [Notes -> Workers \cup {Nobody}]
           /\ fresh' \subseteq fresh \cup {m} /\ (about \notin Juz => fresh' = fresh)
    <2>1. PICK m \in Notes : ToldIn(m, u, about, k)
      BY <1>1, <1>2, OneToldMore
    <2> QED BY <2>1 DEF ToldIn
  <1>6. NoticesTyped'
    BY <1>1, <1>5 DEF NoticesTyped
  <1>7. \A w \in Ustadz, g \in Groups : Told(w, g)' = Told(w, g)
    BY <1>2, <1>5
  <1>8. AgreeInv'
    BY <1>1, <1>7, AgreeKept
  <1>9. ASSUME NEW q \in Workers, q # k PROVE Once(q)' /\ JobKnows(q)'
    <2>1. \A w \in Users : \A s : Mine(q, w, s)' = Mine(q, w, s) /\ m \notin Mine(q, w, s)
      BY <1>5, <1>9
    <2>2. \A j \in Juz :
             (Mine(q, Reader[j], j) \cap fresh)' \subseteq Mine(q, Reader[j], j) \cap fresh
      BY <1>2, <1>5, <2>1
    <2>3. Once(q) /\ JobKnows(q) /\ job'[q] = job[q]
      BY <1>1, <1>9 DEF RemindParts
    <2> QED BY <2>1, <2>2, <2>3, RemindKept
  <1>10. RemindParts'
    BY <1>9 DEF RemindParts
  <1>11. RemindInv'
    BY <1>10, RemindSays, PTL
  <1> QED BY <1>4, <1>6, <1>8, <1>11, NoticesTypes, PTL DEF NoticesInv

\* Worker k goes on with what is left, or writes of one thing next.
LEMMA ResumeFacts ==
    ASSUME job \in [Workers -> JobRow], NEW k \in Workers,
           NEW left \in SUBSET (Visits \cup Juz), NEW at \in {"check", "nudgeCheck"},
           Resume(k, left, at)
    PROVE  /\ job' \in [Workers -> JobRow] /\ \A q \in Workers \ {k} : job'[q] = job[q]
           /\ job'[k].at \in {"idle", "check", "nudgeCheck"} /\ JobKnows(k)'
PROOF
  <1>1. PICK r \in JobRow : /\ job' = [job EXCEPT ![k] = r]
                            /\ r.at \in {"idle", "check", "nudgeCheck"}
    <2>1. JobOff \in JobRow /\ JobOff.at = "idle"
      BY DEF JobOff, JobRow
    <2>2. /\ [at |-> at, left |-> left, one |-> Nothing] \in JobRow
          /\ [at |-> at, left |-> left, one |-> Nothing].at = at
      BY DEF JobRow
    <2> QED BY <2>1, <2>2 DEF Resume
  <1>2. /\ job' \in [Workers -> JobRow] /\ job'[k] = r
        /\ \A q \in Workers \ {k} : job'[q] = job[q]
    BY <1>1
  <1> QED BY <1>1, <1>2 DEF JobKnows

LEMMA FoundFacts ==
    ASSUME job \in [Workers -> JobRow], NEW k \in Workers,
           NEW x \in Visits \cup Juz, NEW at \in {"santri", "nudge"}, Found(k, x, at)
    PROVE  /\ job' \in [Workers -> JobRow] /\ \A q \in Workers \ {k} : job'[q] = job[q]
           /\ job'[k].at = at /\ job'[k].one = x
PROOF
  <1>1. job[k] \in JobRow
    OBVIOUS
  <1> DEFINE r == [at |-> at, left |-> job[k].left \ {x}, one |-> x]
  <1>2. r \in JobRow /\ r.at = at /\ r.one = x
    BY <1>1 DEF JobRow
  <1>3. job' = [job EXCEPT ![k] = r]
    BY DEF Found
  <1> HIDE DEF r
  <1> QED BY <1>2, <1>3

\* Jobs begin, and are cut short.
LEMMA JobTurns ==
    ASSUME Assumed, NoticesInv, NEW k \in Workers,
           job_reminder(k) \/ job_stale_reminder(k) \/ JobFails(k)
    PROVE  NoticesInv'
PROOF
  <1>1. /\ OutboxTypeOK /\ PumpInv /\ NoticesTyped /\ job \in [Workers -> JobRow]
        /\ MaxBegun \in Nat /\ MaxDeaths \in Nat
    BY NoticesTypes DEF NoticesInv, NoticesTyped, Assumed, OutboxAssumption
  <1>2. CASE job_reminder(k) \/ job_stale_reminder(k)
    <2>1. PICK at \in {"check", "nudgeCheck"}, left \in {Visits, Juz} :
             job' = [job EXCEPT ![k] = [at |-> at, left |-> left, one |-> Nothing]]
      BY <1>2 DEF job_reminder, job_stale_reminder, Run
    <2> DEFINE r == [at |-> at, left |-> left, one |-> Nothing]
    <2>2. r \in JobRow /\ r.at \notin {"santri", "ustadz", "nudge"}
      BY DEF JobRow
    <2>3. job' = [job EXCEPT ![k] = r]
      BY <2>1
    <2> HIDE DEF r
    <2>4. /\ job' \in [Workers -> JobRow] /\ job'[k] = r
          /\ \A q \in Workers \ {k} : job'[q] = job[q]
      BY <1>1, <2>2, <2>3
    <2>5. JobKnows(k)'
      BY <2>2, <2>4 DEF JobKnows
    <2>6. /\ UNCHANGED <<note, phone, registering, pump, pushes, lost, cut, group, task, consent,
                         untold, deaths, fresh, by>>
          /\ begun' \in 0..MaxBegun
      BY <1>1, <1>2, PumpSays DEF job_reminder, job_stale_reminder, Run,
         OutboxRests, MayBegin
    <2>7. deaths' \in 0..MaxDeaths
      BY <1>1, <2>6, PumpSays
    <2> QED BY <2>4, <2>5, <2>6, <2>7, JobStepInv
  <1>3. CASE JobFails(k)
    <2>1. job' = [job EXCEPT ![k] = JobOff] /\ JobOff \in JobRow /\ JobOff.at = "idle"
      BY <1>3 DEF JobFails, JobOff, JobRow
    <2>2. /\ job' \in [Workers -> JobRow] /\ job'[k] = JobOff
          /\ \A q \in Workers \ {k} : job'[q] = job[q]
      BY <1>1, <2>1
    <2>3. JobKnows(k)'
      BY <2>1, <2>2 DEF JobKnows
    <2>4. /\ UNCHANGED <<note, phone, registering, pump, pushes, lost, cut, group, task, consent,
                         untold, begun, fresh, by>>
          /\ deaths' \in 0..MaxDeaths
      BY <1>1, <1>3, PumpSays DEF JobFails, Dies
    <2>5. begun' \in 0..MaxBegun
      BY <1>1, <2>4, PumpSays
    <2> QED BY <2>2, <2>3, <2>4, <2>5, JobStepInv
  <1> QED BY <1>2, <1>3

\* A day passes.
LEMMA DayStep ==
    ASSUME Assumed, NoticesInv, DayPasses
    PROVE  NoticesInv'
PROOF
  <1>1. OutboxTypeOK /\ PumpInv /\ NoticesTyped
    BY NoticesTypes DEF NoticesInv
  <1>2. /\ UNCHANGED <<note, phone, registering, pump, pushes, lost, cut, group, task, consent,
                       untold, begun, deaths, job, by>>
        /\ fresh' \subseteq fresh
    BY DEF DayPasses, outboxVars
  <1>3. /\ job' \in [Workers -> JobRow] /\ \A k \in Workers : job'[k] = job[k]
        /\ begun' \in 0..MaxBegun /\ deaths' \in 0..MaxDeaths
    BY <1>1, <1>2, PumpSays DEF NoticesTyped
  <1> QED BY <1>2, <1>3, JobStepInv

\* A visit is to be reminded of if nobody was, a juz if its reader was not today.
LEMMA CountStep ==
    ASSUME Assumed, NoticesInv, NEW k \in Workers,
           (\E v \in Visits : CountReminders(k, v)) \/ (\E j \in Juz : CountNudges(k, j))
    PROVE  NoticesInv'
PROOF
  <1>1. /\ OutboxTypeOK /\ PumpInv /\ NoticesTyped
        /\ job \in [Workers -> JobRow] /\ job[k] \in JobRow
    BY NoticesTypes DEF NoticesInv, NoticesTyped
  <1>2. UNCHANGED <<note, phone, registering, pump, pushes, lost, cut, group, task, consent, untold,
                    begun, deaths, fresh, by>>
    BY DEF CountReminders, CountNudges, outboxVars
  <1>3. begun' \in 0..MaxBegun /\ deaths' \in 0..MaxDeaths
    BY <1>1, <1>2, PumpSays
  <1>4. \A u, s : Mine(k, u, s)' = Mine(k, u, s)
    BY <1>2 DEF Mine, Told
  <1>5. ASSUME NEW v \in Visits, CountReminders(k, v)
        PROVE  /\ job' \in [Workers -> JobRow] /\ JobKnows(k)'
               /\ \A q \in Workers \ {k} : job'[q] = job[q]
    <2>1. job[k].left \ {v} \in SUBSET (Visits \cup Juz)
      BY <1>1 DEF JobRow
    <2>2. CASE Reminded(v)
      <3>1. Resume(k, job[k].left \ {v}, "check")
        BY <1>5, <2>2 DEF CountReminders
      <3> QED BY <1>1, <2>1, <3>1, ResumeFacts
    <2>3. CASE ~Reminded(v)
      <3>1. Found(k, v, "santri")
        BY <1>5, <2>3 DEF CountReminders
      <3>2. v \in Mentions[v]
        BY DEF Assumed, NoticesAssumption
      <3>3. \A u : Mine(k, u, v)' = {}
        BY <1>4, <2>3, <3>2 DEF Reminded, Mine, Told
      <3>4. /\ job'[k].at = "santri" /\ job'[k].one = v /\ job' \in [Workers -> JobRow]
            /\ \A q \in Workers \ {k} : job'[q] = job[q]
        BY <1>1, <3>1, FoundFacts
      <3>5. \A u : Mine(k, u, job[k].one)' = {}
        BY <3>3, <3>4 DEF Mine, Told
      <3> QED BY <3>4, <3>5 DEF JobKnows
    <2> QED BY <2>2, <2>3
  <1>6. ASSUME NEW j \in Juz, CountNudges(k, j)
        PROVE  /\ job' \in [Workers -> JobRow] /\ JobKnows(k)'
               /\ \A q \in Workers \ {k} : job'[q] = job[q]
    <2>1. job[k].left \ {j} \in SUBSET (Visits \cup Juz)
      BY <1>1 DEF JobRow
    <2>2. CASE Told(Reader[j], j) \cap fresh # {}
      <3>1. Resume(k, job[k].left \ {j}, "nudgeCheck")
        BY <1>6, <2>2 DEF CountNudges
      <3> QED BY <1>1, <2>1, <3>1, ResumeFacts
    <2>3. CASE Told(Reader[j], j) \cap fresh = {}
      <3>1. Found(k, j, "nudge")
        BY <1>6, <2>3 DEF CountNudges
      <3>2. /\ job'[k].at = "nudge" /\ job'[k].one = j /\ job' \in [Workers -> JobRow]
            /\ \A q \in Workers \ {k} : job'[q] = job[q]
        BY <1>1, <3>1, FoundFacts
      <3>3. (Mine(k, Reader[j], j) \cap fresh)' = {}
        BY <1>2, <1>4, <2>3 DEF Mine
      <3>4. (Mine(k, Reader[job[k].one], job[k].one) \cap fresh)' = {}
        BY <3>2, <3>3 DEF Mine, Told
      <3> QED BY <3>2, <3>4 DEF JobKnows
    <2> QED BY <2>2, <2>3
  <1> QED BY <1>2, <1>3, <1>5, <1>6, JobStepInv

\* The santri is told, then the ustadz.
LEMMA TellPartiesStep ==
    ASSUME Assumed, NoticesInv, NEW k \in Workers, TellSantri(k) \/ TellUstadz(k)
    PROVE  NoticesInv'
PROOF
  <1>1. /\ NoticesTypeOK /\ OutboxTypeOK /\ PumpInv /\ NoticesTyped
        /\ job \in [Workers -> JobRow] /\ job[k] \in JobRow
        /\ Once(k) /\ JobKnows(k) /\ by \in [Notes -> Workers \cup {Nobody}]
    BY NoticesTypes, NoticeTypes, RemindSays DEF NoticesInv, NoticesTyped, RemindParts
  <1>2. PICK v \in Visits : v = job[k].one
    BY <1>1 DEF JobKnows, TellSantri, TellUstadz
  <1> DEFINE u == IF job[k].at = "santri" THEN Santri[v] ELSE Leader[v]
  <1>3. /\ Write({u}, v, k) /\ job[k].at \in {"santri", "ustadz"}
        /\ UNCHANGED <<group, task, begun, consent, untold>>
    BY <1>2 DEF TellSantri, TellUstadz
  <1>4. u \in Users /\ v \in Subjects /\ v \notin Juz /\ Reader \in [Juz -> Users]
    BY DEF Assumed, NoticesAssumption
  <1>5. /\ job' \in [Workers -> JobRow] /\ \A q \in Workers \ {k} : job'[q] = job[q]
        /\ \/ TellSantri(k) /\ job[k].at = "santri" /\ job'[k].at = "ustadz" /\ job'[k].one = v
           \/ TellUstadz(k) /\ JobKnows(k)'
    <2>1. CASE TellSantri(k)
      <3> DEFINE r == [job[k] EXCEPT !.at = "ustadz"]
      <3>1. job' = [job EXCEPT ![k] = r] /\ job[k].at = "santri"
        BY <1>1, <2>1 DEF TellSantri
      <3>2. r \in JobRow /\ r.at = "ustadz" /\ r.one = v
        BY <1>1, <1>2 DEF JobRow
      <3> HIDE DEF r
      <3> QED BY <1>1, <2>1, <3>1, <3>2
    <2>2. CASE TellUstadz(k)
      <3>1. Resume(k, job[k].left, "check") /\ job[k].left \in SUBSET (Visits \cup Juz)
        BY <1>1, <2>2 DEF TellUstadz, JobRow
      <3> QED BY <1>1, <2>2, <3>1, ResumeFacts
    <2> QED BY <2>1, <2>2
  <1> HIDE DEF u
  <1>6. PICK m \in Notes :
           /\ \A w \in Users : \A s : m \notin Told(w, s)
           /\ \A q, w, s : Mine(q, w, s) \subseteq Told(w, s)
           /\ \A q \in Workers, w \in Users : \A s : Mine(q, w, s)' =
                 IF q = k /\ w = u /\ s = v THEN Mine(q, w, s) \cup {m} ELSE Mine(q, w, s)
           /\ fresh' \subseteq fresh \cup {m} /\ (v \notin Juz => fresh' = fresh)
    <2>1. PICK m \in Notes : ToldIn(m, u, v, k)
      BY <1>1, <1>3, <1>4, OneToldMore
    <2> QED BY <2>1 DEF ToldIn
  <1>7. ASSUME NEW w \in Users
        PROVE  /\ Cardinality(Mine(k, w, v)') <=
                     Cardinality(Mine(k, w, v)) + (IF w = u THEN 1 ELSE 0)
               /\ Cardinality(Mine(k, w, v)) \in Nat /\ Cardinality(Mine(k, w, v)') \in Nat
    <2>1. IsFiniteSet(Mine(k, w, v)) /\ Cardinality(Mine(k, w, v)) \in Nat
      BY FewTold
    <2>2. CASE w = u
      <3>1. Mine(k, w, v)' = Mine(k, w, v) \cup {m} /\ m \notin Mine(k, w, v)
        BY <1>6, <2>2
      <3>2. Cardinality(Mine(k, w, v)') = Cardinality(Mine(k, w, v)) + 1
        BY <2>1, <3>1, FS_AddElement
      <3> QED BY <2>1, <2>2, <3>2
    <2>3. CASE w # u
      BY <1>6, <2>1, <2>3
    <2> QED BY <2>2, <2>3
  <1>8. \A w \in Users, x \in Visits \ {v} : Mine(k, w, x)' = Mine(k, w, x)
    BY <1>6
  <1>9. \A j \in Juz : (Mine(k, Reader[j], j) \cap fresh)' = Mine(k, Reader[j], j) \cap fresh
    BY <1>4, <1>6
  <1>10. ASSUME NEW w \in Users
         PROVE  /\ AsSantri(w, v) \in {0, 1} /\ AsLeader(w, v) \in {0, 1}
                /\ AsSantri(w, v)' = AsSantri(w, v)
                /\ job[k].at = "santri" => Cardinality(Mine(k, w, v)') <= AsSantri(w, v)
                /\ Cardinality(Mine(k, w, v)') <= Due(w, v)
    <2>1. AsSantri(w, v) \in {0, 1} /\ AsLeader(w, v) \in {0, 1}
      BY DEF AsSantri, AsLeader
    <2>2. CASE job[k].at = "santri"
      <3>1. Mine(k, w, v) = {}
        BY <1>1, <1>2, <2>2 DEF JobKnows
      <3>2. Cardinality(Mine(k, w, v)) = 0
        BY <3>1, FS_EmptySet
      <3>3. Cardinality(Mine(k, w, v)') <= AsSantri(w, v)
        BY <1>7, <2>2, <3>2 DEF u, AsSantri
      <3> QED BY <1>7, <2>1, <3>3 DEF Due, AsSantri
    <2>3. CASE job[k].at # "santri"
      <3>1. Cardinality(Mine(k, w, v)) <= AsSantri(w, v)
        BY <1>1, <1>2, <1>3, <2>3 DEF JobKnows
      <3>2. Cardinality(Mine(k, w, v)') <= AsSantri(w, v) + AsLeader(w, v)
        BY <1>7, <2>1, <2>3, <3>1 DEF u, AsLeader
      <3> QED BY <2>1, <2>3, <3>2 DEF Due, AsSantri
    <2> QED BY <2>2, <2>3
  <1>11. Once(k)'
    <2>1. ASSUME NEW x \in Visits, NEW w \in Users PROVE Cardinality(Mine(k, w, x)') <= Due(w, x)
      BY <1>1, <1>8, <1>10 DEF Once
    <2>2. \A j \in Juz : Cardinality((Mine(k, Reader[j], j) \cap fresh)') <= 1
      BY <1>1, <1>9 DEF Once
    <2> QED BY <2>1, <2>2 DEF Once, Due, AsSantri, AsLeader
  <1>12. JobKnows(k)'
    <2>1. CASE job[k].at = "santri" /\ job'[k].at = "ustadz" /\ job'[k].one = v
      <3>1. \A w \in Users : Cardinality(Mine(k, w, v)') <= AsSantri(w, v)
        BY <1>10, <2>1
      <3>2. \A w \in Users : Cardinality(Mine(k, w, job[k].one)') <= AsSantri(w, job[k].one)'
        BY <2>1, <3>1 DEF Mine, Told, AsSantri
      <3> QED BY <2>1, <3>2 DEF JobKnows
    <2> QED BY <1>5, <2>1
  <1> QED BY <1>3, <1>4, <1>5, <1>11, <1>12, JobWriteInv

\* The reader of a juz is told, once today.
LEMMA NudgeStep ==
    ASSUME Assumed, NoticesInv, NEW k \in Workers, Nudge(k)
    PROVE  NoticesInv'
PROOF
  <1>1. /\ NoticesTypeOK /\ OutboxTypeOK /\ PumpInv /\ NoticesTyped
        /\ job \in [Workers -> JobRow] /\ job[k] \in JobRow
        /\ Once(k) /\ JobKnows(k) /\ by \in [Notes -> Workers \cup {Nobody}]
    BY NoticesTypes, NoticeTypes, RemindSays DEF NoticesInv, NoticesTyped, RemindParts
  <1>2. PICK j \in Juz : j = job[k].one
    BY <1>1 DEF JobKnows, Nudge
  <1>3. /\ Write({Reader[j]}, j, k) /\ job[k].at = "nudge"
        /\ UNCHANGED <<group, task, begun, consent, untold>>
        /\ Resume(k, job[k].left, "nudgeCheck")
    BY <1>2 DEF Nudge
  <1>4. j \in Subjects /\ j \notin Visits /\ Reader \in [Juz -> Users]
    BY DEF Assumed, NoticesAssumption
  <1>5. /\ job' \in [Workers -> JobRow] /\ \A q \in Workers \ {k} : job'[q] = job[q]
        /\ JobKnows(k)'
    <2>1. job[k].left \in SUBSET (Visits \cup Juz)
      BY <1>1 DEF JobRow
    <2> QED BY <1>1, <1>3, <2>1, ResumeFacts
  <1>6. PICK m \in Notes :
           /\ \A w \in Users : \A s : m \notin Told(w, s)
           /\ \A q, w, s : Mine(q, w, s) \subseteq Told(w, s)
           /\ \A q \in Workers, w \in Users : \A s : Mine(q, w, s)' =
                 IF q = k /\ w = Reader[j] /\ s = j THEN Mine(q, w, s) \cup {m} ELSE Mine(q, w, s)
           /\ fresh' \subseteq fresh \cup {m} /\ (j \notin Juz => fresh' = fresh)
    <2>1. PICK m \in Notes : ToldIn(m, Reader[j], j, k)
      BY <1>1, <1>3, <1>4, OneToldMore
    <2> QED BY <2>1 DEF ToldIn
  <1>7. \A v \in Visits, w \in Users : Mine(k, w, v)' = Mine(k, w, v)
    BY <1>4, <1>6
  <1>8. ASSUME NEW i \in Juz PROVE Cardinality((Mine(k, Reader[i], i) \cap fresh)') <= 1
    <2>1. CASE i = j
      <3>1. Mine(k, Reader[j], j) \cap fresh = {}
        BY <1>1, <1>2, <1>3 DEF JobKnows
      <3>2. (Mine(k, Reader[j], j) \cap fresh)' \in SUBSET {m}
        BY <1>4, <1>6, <3>1
      <3>3. IsFiniteSet({m}) /\ Cardinality({m}) = 1
        BY FS_Singleton
      <3> QED BY <2>1, <3>2, <3>3, NoMore
    <2>2. CASE i # j
      <3>1. (Mine(k, Reader[i], i) \cap fresh)' \subseteq Mine(k, Reader[i], i) \cap fresh
        BY <1>4, <1>6, <2>2
      <3>2. /\ IsFiniteSet(Mine(k, Reader[i], i) \cap fresh)
            /\ Cardinality(Mine(k, Reader[i], i) \cap fresh) <= 1
        BY <1>1, FewTold DEF Once
      <3> QED BY <3>1, <3>2, NoMore
    <2> QED BY <2>1, <2>2
  <1>9. Once(k)'
    <2>1. ASSUME NEW x \in Visits, NEW w \in Users PROVE Cardinality(Mine(k, w, x)') <= Due(w, x)
      BY <1>1, <1>7 DEF Once
    <2> QED BY <1>8, <2>1 DEF Once, Due, AsSantri, AsLeader
  <1> QED BY <1>3, <1>4, <1>5, <1>9, JobWriteInv

-----------------------------------------------------------------------------
(* The inbox: theorems *)

\* Many are told by an admin, of nothing anybody looks for.
LEMMA BroadcastStep ==
    ASSUME Assumed, NoticesInv, NEW users \in Audience, notifications_send(users)
    PROVE  NoticesInv'
PROOF
  <1>1. /\ NoticesTypeOK /\ OutboxTypeOK /\ PumpInv /\ NoticesTyped
        /\ AgreeInv /\ RemindInv
    BY NoticesTypes DEF NoticesInv
  <1>2. /\ Write(users, "broadcast", Nobody) /\ UNCHANGED <<group, task, consent, untold, job>>
        /\ begun < MaxBegun /\ begun' = begun + 1
    BY DEF notifications_send, MayBegin
  <1>3. /\ "broadcast" \in Subjects /\ "broadcast" \notin Visits \cup Groups \cup Juz
        /\ users \in SUBSET Users /\ Ustadz \subseteq Users /\ Reader \in [Juz -> Users]
    BY DEF Assumed, NoticesAssumption, Audience
  <1>4. begun' \in 0..MaxBegun
    BY <1>1, <1>2, PumpSays DEF Assumed, OutboxAssumption
  <1>5. OutboxTypeOK' /\ PumpInv'
    BY <1>1, <1>2, <1>3, <1>4, WriteStep
  <1>6. /\ \A w \in Users : \A s : s # "broadcast" => Told(w, s)' = Told(w, s)
        /\ \A k \in Workers, w \in Users : \A s : s # "broadcast" => Mine(k, w, s)' = Mine(k, w, s)
        /\ fresh' = fresh /\ by' \in [Notes -> Workers \cup {Nobody}]
    <2>1. by \in [Notes -> Workers \cup {Nobody}]
      BY <1>1, NoticeTypes
    <2>2. /\ \A w \in Users : \A s : s # "broadcast" => Told(w, s)' = Told(w, s)
          /\ \A w \in Users : \A k, s : s # "broadcast" => Mine(k, w, s)' = Mine(k, w, s)
          /\ fresh' = fresh /\ by' \in [Notes -> Workers \cup {Nobody}]
      BY <1>1, <1>2, <1>3, <2>1, ManyTold
    <2> QED BY <2>2
  <1>7. NoticesTyped'
    BY <1>1, <1>2, <1>6 DEF NoticesTyped
  <1>8. \A w \in Ustadz, g \in Groups : Told(w, g)' = Told(w, g)
    BY <1>3, <1>6
  <1>9. AgreeInv'
    BY <1>1, <1>2, <1>8, AgreeKept
  <1>10. /\ \A k \in Workers, v \in Visits, w \in Users : Mine(k, w, v)' = Mine(k, w, v)
         /\ \A k \in Workers, j \in Juz : Mine(k, Reader[j], j)' = Mine(k, Reader[j], j)
    BY <1>3, <1>6
  <1>11. RemindInv'
    BY <1>1, <1>2, <1>6, <1>10, RemindsKept
  <1> QED BY <1>5, <1>7, <1>9, <1>11, NoticesTypes, PTL DEF NoticesInv

\* The pump and the phones change nothing a writer looks for.
LEMMA PumpSide ==
    ASSUME Assumed, NoticesInv, OutboxNext, UNCHANGED noticeVars
    PROVE  NoticesInv'
PROOF
  <1>1. /\ NoticesTypeOK /\ OutboxTypeOK /\ PumpInv /\ NoticesTyped
        /\ AgreeInv /\ RemindInv
    BY NoticesTypes DEF NoticesInv
  <1>2. OutboxTypeOK' /\ PumpInv' /\ RowsKept
    BY <1>1, OutboxStep
  <1>3. UNCHANGED <<group, task, consent, untold, fresh, job, by>>
    BY DEF noticeVars
  <1>4. \A u, s : Told(u, s)' = Told(u, s)
    BY <1>2, ToldKept
  <1>5. NoticesTyped'
    BY <1>1, <1>3 DEF NoticesTyped
  <1>6. AgreeInv'
    BY <1>1, <1>3, <1>4, AgreeKept
  <1>7. RemindInv'
    BY <1>1, <1>2, <1>3, MineKept, RemindsKept
  <1> QED BY <1>2, <1>5, <1>6, <1>7, NoticesTypes, PTL DEF NoticesInv

\* Initially nothing is written.
LEMMA NoticesInitInv ==
    ASSUME Assumed, NoticesInit
    PROVE  NoticesInv
PROOF
  <1>1. /\ note = [n \in Notes |-> Blank] /\ pump = Rest
        /\ pushes = [r \in Notes \X Phones |-> 0] /\ lost = [r \in Notes \X Phones |-> 0]
        /\ begun = 0 /\ deaths = 0 /\ cut = {}
        /\ registering = [u \in Users |-> NoPhone]
        /\ phone = [d \in Phones |-> IF Registered[d] = Nobody THEN NoRow
                       ELSE [user |-> Registered[d], app |-> TRUE, active |-> TRUE]]
    BY DEF NoticesInit, OutboxInit
  <1>2. /\ group = [g \in Groups |-> [ustadz |-> Nobody, pending |-> Asked[g]]]
        /\ task = [p \in Requests |-> NoticeIdle] /\ consent = {} /\ fresh = {}
        /\ untold = {r \in Groups \X Ustadz : r[2] = Asked[r[1]]}
        /\ job = [w \in Workers |-> JobOff] /\ by = [n \in Notes |-> Nobody]
    BY DEF NoticesInit
  <1>3. /\ MaxBegun \in Nat /\ MaxDeaths \in Nat /\ MaxAttempts \in Nat
        /\ Registered \in [Phones -> Users \cup {Nobody}]
        /\ Asked \in [Groups -> Ustadz \cup {Nobody}] /\ Nobody \notin Users
        /\ Ustadz \subseteq Users
    BY DEF Assumed, OutboxAssumption, NoticesAssumption
  <1>4. /\ note \in [Notes -> NoteRow] /\ pump \in PumpRow
        /\ phone \in [Phones -> [user : Users \cup {Nobody}, app : BOOLEAN, active : BOOLEAN]]
    BY <1>1, <1>3 DEF NoteRow, PumpRow, Blank, Rest, NoRow
  <1>5. OutboxTypeOK
    BY <1>1, <1>3, <1>4 DEF OutboxTypeOK, NoteRow, PumpRow
  <1>6. PumpInv
    BY <1>1 DEF PumpInv, Rest, Tries, Sending, Blank
  <1>7. NoticesTyped
    BY <1>2, <1>3 DEF NoticesTyped, GroupRow, TaskRow, JobRow, NoticeIdle, JobOff
  <1>8. ASSUME NEW g \in Groups PROVE Agreed(g) /\ AskedIsTold(g)
    <2>1. /\ group[g].ustadz = Nobody /\ group[g].pending = Asked[g]
          /\ Asked[g] \in Ustadz \cup {Nobody}
      BY <1>2, <1>3
    <2>2. Asked[g] # Nobody => <<g, Asked[g]>> \in untold
      BY <1>2, <2>1
    <2> QED BY <2>1, <2>2 DEF Agreed, AskedIsTold
  <1>9. \A p \in Requests : Knows(p)
    BY <1>2 DEF Knows, NoticeIdle
  <1>10. AgreeInv
    BY <1>8, <1>9, AgreeSays DEF AgreeParts
  <1>11. \A k, s : \A u \in Users : Mine(k, u, s) = {}
    BY <1>1, <1>3 DEF Mine, Told, Blank
  <1>12. Cardinality({}) = 0
    BY FS_EmptySet
  <1>13. ASSUME NEW k \in Workers PROVE Once(k)
    <2>1. ASSUME NEW v \in Visits, NEW u \in Users
          PROVE  Cardinality(Mine(k, u, v)) = 0 /\ Due(u, v) \in Nat
      <3>1. Mine(k, u, v) = {}
        BY <1>11
      <3>2. Due(u, v) \in Nat
        BY DEF Due, AsSantri, AsLeader
      <3> QED BY <1>12, <3>1, <3>2
    <2>2. ASSUME NEW j \in Juz PROVE Cardinality(Mine(k, Reader[j], j) \cap fresh) = 0
      <3>1. Reader[j] \in Users
        BY DEF Assumed, NoticesAssumption
      <3>2. Mine(k, Reader[j], j) \cap fresh = {}
        BY <1>11, <3>1
      <3> QED BY <1>12, <3>2
    <2>3. \A v \in Visits, u \in Users : Cardinality(Mine(k, u, v)) <= Due(u, v)
      BY <2>1
    <2> QED BY <2>2, <2>3 DEF Once
  <1>14. \A k \in Workers : JobKnows(k)
    BY <1>2 DEF JobKnows, JobOff
  <1>15. RemindInv
    BY <1>13, <1>14, RemindSays DEF RemindParts
  <1> QED BY <1>5, <1>6, <1>7, <1>10, <1>15, NoticesTypes DEF NoticesInv

\* Whatever a step does.
LEMMA NoticesNextInv ==
    ASSUME Assumed, NoticesInv, [NoticesNext]_inboxVars
    PROVE  NoticesInv'
PROOF
  <1>1. CASE UNCHANGED inboxVars
    <2>1. /\ UNCHANGED <<note, phone, registering, pump, pushes, lost, begun, deaths, cut>>
          /\ UNCHANGED <<group, task, consent, untold, fresh, job, by>>
      BY <1>1 DEF inboxVars, outboxVars, noticeVars
    <2>2. /\ OutboxTypeOK /\ PumpInv /\ NoticesTyped
      BY NoticesTypes DEF NoticesInv
    <2>3. begun' \in 0..MaxBegun /\ deaths' \in 0..MaxDeaths /\ job' \in [Workers -> JobRow]
      BY <2>1, <2>2, PumpSays DEF NoticesTyped
    <2> QED BY <2>1, <2>3, JobStepInv
  <1>2. CASE OutboxNext /\ UNCHANGED noticeVars
    BY <1>2, PumpSide
  <1>3. ASSUME NEW p \in Requests, NEW g \in Groups, NEW u \in Ustadz,
               admin_assign(p, g, u) \/ accept_group(p, g, u) \/ reject_group(p, g, u)
        PROVE  NoticesInv'
    BY <1>3, BeginStep
  <1>4. ASSUME NEW p \in Requests,
               Assign(p) \/ Accept(p) \/ TellOne(p) \/ Drop(p)
        PROVE  NoticesInv'
    BY <1>4, AssignStep, AcceptStep, TellOneStep, DropStep
  <1>5. ASSUME NEW users \in Audience, notifications_send(users) PROVE NoticesInv'
    BY <1>5, BroadcastStep
  <1>6. ASSUME NEW w \in Workers, Reminds(w) PROVE NoticesInv'
    BY <1>6, CountStep, TellPartiesStep, NudgeStep, JobTurns DEF Reminds
  <1>7. CASE DayPasses
    BY <1>7, DayStep
  <1> QED BY <1>1, <1>2, <1>3, <1>4, <1>5, <1>6, <1>7 DEF NoticesNext

\* Whatever the pump, the phones, requests, jobs and deaths do meanwhile: the
\* rows of a batch wait, what was pushed and is not lost is known to the pump, and
\* between a count and its note a worker writes nothing of the same visit or juz.
THEOREM Notices_Invariant == NoticesSpec => []NoticesInv
PROOF
  <1>1. NoticesInit => NoticesInv
    BY OutboxAssumption, NoticesAssumption, NoticesInitInv DEF Assumed
  <1>2. NoticesInv /\ [NoticesNext]_inboxVars => NoticesInv'
    BY OutboxAssumption, NoticesAssumption, NoticesNextInv DEF Assumed
  <1> QED BY <1>1, <1>2, PTL DEF NoticesSpec

\* No double push (pump_once of fcm.rs): a phone gets a notification once, and once
\* more for each answer of the messaging service that was lost, never more often
\* than it is tried; whatever the other phones of the user get, unless the pump
\* died over it.
THEOREM Pushed_Once == NoticesSpec => []PushedOnce
PROOF
  <1>1. NoticesInv => PushedOnce
    <2>1. ASSUME NoticesInv, NEW n \in Notes \ cut, NEW d \in Phones
          PROVE  pushes[<<n, d>>] <= 1 + lost[<<n, d>>] /\ pushes[<<n, d>>] <= MaxAttempts
      <3>1. OutboxTypeOK /\ PumpInv /\ MaxAttempts \in Nat
        BY <2>1, OutboxAssumption DEF NoticesInv, NoticesTypeOK
      <3>2. /\ pushes[<<n, d>>] \in Nat /\ Pushed(n, d)
            /\ note[n].attempts \in 0..MaxAttempts
        BY <3>1, PumpSays
      <3>3. Sending(n) => note[n].attempts < MaxAttempts
        BY <3>1, OutboxAssumption, NoticesAssumption, PumpSays, HeadOfBatch DEF Sending, Assumed
      <3>4. Tries(n, d) <= MaxAttempts /\ Tries(n, d) \in Nat
        BY <3>1, <3>2, <3>3 DEF Tries
      <3> QED BY <3>1, <3>2, <3>4 DEF Pushed
    <2> QED BY <2>1 DEF PushedOnce
  <1> QED BY <1>1, Notices_Invariant, PTL

\* The ustadz of a group has agreed while being the one asked, and who is asked
\* was told so (admin_assign, accept_group, reject_group of penugasan.rs), for
\* any number of groups, ustadz and overlapping requests.
THEOREM Pembina_Has_Agreed == NoticesSpec => []PembinaHasAgreed
PROOF
  <1>1. NoticesInv => PembinaHasAgreed
    BY DEF NoticesInv, AgreeInv
  <1> QED BY <1>1, Notices_Invariant, PTL

\* No worker reminds twice of a visit, nor of a juz on one day (job_reminder,
\* job_stale_reminder), wherever its jobs fail and begin again, for any number of
\* workers that run theirs at the same time.
THEOREM Reminded_Once == NoticesSpec => []RemindedOnce
PROOF
  <1>1. NoticesInv => RemindedOnce
    BY DEF NoticesInv, RemindInv
  <1> QED BY <1>1, Notices_Invariant, PTL
=============================================================================
