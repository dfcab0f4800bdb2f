------------------------ MODULE FrontEndCompanyProofs -------------------------
(***************************************************************************)
(* Theorems about the pages of one company: its review, the progress of    *)
(* its onboarding, and the money of its payment.                           *)
(***************************************************************************)
EXTENDS FrontEndProofs

-----------------------------------------------------------------------------
(***************************************************************************)
(* The page on which a company is reviewed: its loads.                     *)
(***************************************************************************)
AreLoads(s) == s \in Seq({s[i] : i \in DOMAIN s})
               /\ \A i \in DOMAIN s : DOMAIN s[i] = {"row", "op", "clean"}

LEMMA LoadsIn ==
  ASSUME NEW S, \A e \in S : DOMAIN e = {"row", "op", "clean"}, NEW s \in Seq(S)
  PROVE  AreLoads(s)
<1> DEFINE R == {s[i] : i \in DOMAIN s}
<1>1. Len(s) \in Nat /\ DOMAIN s = 1..Len(s) /\ s = [i \in 1..Len(s) |-> s[i]]
  BY LenProperties
<1>2. \A i \in 1..Len(s) : s[i] \in R
  BY <1>1
<1>3. [i \in 1..Len(s) |-> s[i]] \in Seq(R)
  <2> HIDE DEF R
  <2> QED BY <1>1, <1>2, IsASeq
<1>4. \A i \in DOMAIN s : s[i] \in S
  BY ElementOfSeq, <1>1
<1> QED BY <1>1, <1>3, <1>4 DEF AreLoads

\* A change at the server leaves as many loads, none of which is clean any more.
LEMMA DirtyLoads ==
  ASSUME AreLoads(loads)
  PROVE  /\ AreLoads(Review!Dirty) /\ Len(Review!Dirty) = Len(loads)
         /\ Review!Dirty = <<>> <=> loads = <<>>
         /\ \A i \in DOMAIN Review!Dirty : Review!Dirty[i].clean = FALSE
<1> DEFINE d == [i \in DOMAIN loads |-> [loads[i] EXCEPT !.clean = FALSE]]
           R == {loads[i] : i \in DOMAIN loads}
           T == {[e EXCEPT !.clean = FALSE] : e \in R}
<1>1. Len(loads) \in Nat /\ DOMAIN loads = 1..Len(loads)
  BY LenProperties DEF AreLoads
<1>2. \A i \in 1..Len(loads) : [loads[i] EXCEPT !.clean = FALSE] \in T
  BY <1>1
<1>3. d \in Seq(T)
  <2> HIDE DEF T
  <2> QED BY <1>1, <1>2, IsASeq
<1>4. \A e \in T : DOMAIN e = {"row", "op", "clean"}
  BY DEF AreLoads
<1>5. AreLoads(d)
  <2> HIDE DEF T
  <2> QED BY <1>3, <1>4, LoadsIn
<1>6. Len(d) = Len(loads)
  <2>1. DOMAIN d = 1..Len(loads)
    BY <1>1
  <2> HIDE DEF T, d
  <2> QED BY <1>1, <1>3, <2>1, LenProperties
<1>7. \A i \in DOMAIN d : d[i].clean = FALSE
  BY DEF AreLoads
<1>8. d = <<>> <=> loads = <<>>
  <2>1. d = <<>> <=> Len(d) = 0
    <3> HIDE DEF T, d
    <3> QED BY <1>3, EmptySeq
  <2>2. loads = <<>> <=> Len(loads) = 0
    BY EmptySeq DEF AreLoads
  <2> QED BY <1>6, <2>1, <2>2
<1>9. Review!Dirty = d
  BY DEF Review!Dirty
<1> HIDE DEF d
<1> QED BY <1>5, <1>6, <1>7, <1>8, <1>9

LEMMA OneLoadLess ==
  ASSUME NEW s, AreLoads(s), NEW i \in DOMAIN s, NEW t, t = Review!RemoveAt(s, i)
  PROVE  AreLoads(t) /\ (Len(s) = 1 => t = <<>>) /\ t \in Seq({s[j] : j \in DOMAIN s})
<1> DEFINE R == {s[j] : j \in DOMAIN s}
<1>1. s \in Seq(R) /\ \A x \in R : DOMAIN x = {"row", "op", "clean"}
  BY DEF AreLoads
<1> HIDE DEF R
<1>2. Len(s) \in Nat /\ i \in 1..Len(s)
  BY <1>1, LenProperties
<1>3. SubSeq(s, 1, i-1) \in Seq(R) /\ SubSeq(s, i+1, Len(s)) \in Seq(R)
  BY <1>1, <1>2
<1>4. t \in Seq(R)
  BY <1>3 DEF Review!RemoveAt
<1>5. Len(s) = 1 => t = <<>>
  BY <1>1, <1>2, <1>3 DEF Review!RemoveAt
<1>6. AreLoads(t)
  BY <1>1, <1>4, LoadsIn
<1> QED BY <1>4, <1>5, <1>6 DEF R

(***************************************************************************)
(* The review page: what the server does.                                  *)
(***************************************************************************)
Columns == {"stage", "doc", "payment", "draft"}

\* A row with a stage of payment has a payment.
IsRow(s) == DOMAIN s = Columns /\ (s.stage = "PAYMENT_PENDING" => s.payment # "none")

\* Only a link makes a payment, and only the signed agreement takes a company past the draft.
Allowed(s, op, t) ==
  /\ IsRow(t)
  /\ t.payment # "none" => s.payment # "none" \/ op = "link"
  /\ t.stage \in Review!PastDraft => s.stage \in Review!PastDraft \/ op = "signed"

LEMMA StageMoved ==
  ASSUME NEW s, IsRow(s), NEW from, NEW to, NEW t \in Review!Moved(s, from, to),
         to # "PAYMENT_PENDING"
  PROVE  IsRow(t) /\ t.payment = s.payment /\ t.stage = to /\ s.stage \in from
BY DEF Review!Moved, IsRow, Columns

LEMMA ColumnSet ==
  ASSUME NEW s, IsRow(s), NEW v
  PROVE  /\ IsRow([s EXCEPT !.draft = v]) /\ IsRow([s EXCEPT !.doc = v])
         /\ [s EXCEPT !.draft = v].payment = s.payment /\ [s EXCEPT !.draft = v].stage = s.stage
         /\ [s EXCEPT !.doc = v].payment = s.payment /\ [s EXCEPT !.doc = v].stage = s.stage
BY DEF IsRow, Columns

LEMMA EffectsAllowed ==
  ASSUME NEW s, IsRow(s), NEW op, NEW v, NEW t \in Review!Effects(s, op, v)
  PROVE  Allowed(s, op, t)
<1> USE DEF Review!Effects, Review!PastDraft
<1>a. ASSUME IsRow(t), t.payment = s.payment, t.stage \in Review!PastDraft => s.stage \in Review!PastDraft
      PROVE  Allowed(s, op, t)
  BY <1>a DEF Allowed
<1>0. s # Review!Blank
  OBVIOUS
<1>1. CASE op = "review"
  <2>1. t \in Review!reviewDocument(s, v)
    BY <1>0, <1>1
  <2>2. PICK st \in {"KYC_REVIEW", "AGREEMENT_DRAFT_SHARED", s.stage} :
          /\ s.stage \in {"KYC_IN_PROGRESS", "KYC_REVIEW"}
          /\ t = [s EXCEPT !.doc = v, !.stage = st]
    BY <2>1 DEF Review!reviewDocument
  <2> DEFINE u == [s EXCEPT !.doc = v]
  <2>3. t = [u EXCEPT !.stage = st]
    BY <2>2
  <2>4. IsRow(u) /\ u.payment = s.payment
    BY ColumnSet
  <2> HIDE DEF u
  <2>5. IsRow(t) /\ t.payment = s.payment /\ t.stage = st
    BY <2>2, <2>3, <2>4 DEF IsRow, Columns
  <2> QED BY <1>a, <2>2, <2>5
<1>2. CASE op = "complete"
  <2>1. t = [s EXCEPT !.stage = "AGREEMENT_DRAFT_SHARED"]
    BY <1>0, <1>2
  <2>2. IsRow(t) /\ t.payment = s.payment /\ t.stage = "AGREEMENT_DRAFT_SHARED"
    BY <2>1 DEF IsRow, Columns
  <2> QED BY <1>a, <2>2
<1>3. CASE op = "draft"
  <2>1. PICK r \in Review!Moved(s, Review!SharedFrom, "AGREEMENT_DRAFT_SHARED") :
          t = [r EXCEPT !.draft = TRUE]
    BY <1>0, <1>3 DEF Review!Drafted
  <2>2. IsRow(r) /\ r.payment = s.payment /\ r.stage = "AGREEMENT_DRAFT_SHARED"
    BY <2>1, StageMoved
  <2> QED BY <1>a, <2>1, <2>2, ColumnSet
<1>4. CASE op = "template"
  <2>1. t = [s EXCEPT !.draft = TRUE]
    BY <1>0, <1>4 DEF Review!Drafted
  <2> QED BY <1>a, <2>1, ColumnSet
<1>5. CASE op = "notify"
  <2>1. t \in Review!Moved(s, {"KYC_REVIEW", "AGREEMENT_DRAFT_SHARED"}, "AGREEMENT_DRAFT_SHARED")
    BY <1>0, <1>5
  <2> QED BY <1>a, <2>1, StageMoved
<1>6. CASE op = "signed"
  <2>1. t \in Review!Moved(s, {"AGREEMENT_DRAFT_SHARED", "SIGNED_AGREEMENT_RECEIVED"},
                           "SIGNED_AGREEMENT_RECEIVED")
    BY <1>0, <1>6
  <2>2. IsRow(t) /\ t.payment = s.payment
    BY <2>1, StageMoved
  <2> QED BY <1>6, <2>2 DEF Allowed
<1>7. CASE op = "final"
  <2>1. \/ t \in Review!Moved(s, {"SIGNED_AGREEMENT_RECEIVED"}, "FINAL_AGREEMENT_SHARED")
        \/ t = s
    BY <1>0, <1>7
  <2> QED BY <1>a, <2>1, StageMoved
<1>8. CASE op = "link"
  <2>1. PICK r \in Review!Moved(s, {"ADMIN_CREATED", "PAYMENT_PENDING"}, "PAYMENT_PENDING") :
          t = [r EXCEPT !.payment = "CREATED"]
    BY <1>0, <1>8
  <2>2. DOMAIN r = Columns /\ r.stage = "PAYMENT_PENDING"
    BY <2>1 DEF Review!Moved, IsRow, Columns
  <2>3. DOMAIN t = Columns /\ t.stage = "PAYMENT_PENDING" /\ t.payment = "CREATED"
    BY <2>1, <2>2 DEF Columns
  <2> QED BY <1>8, <2>3 DEF Allowed, IsRow
<1>9. CASE op = "paid"
  <2>1. PICK r \in Review!Moved(s, {"PAYMENT_PENDING"}, "KYC_IN_PROGRESS") :
          t = [r EXCEPT !.payment = "PAID"]
    BY <1>0, <1>9
  <2>2. IsRow(r) /\ r.stage = "KYC_IN_PROGRESS" /\ s.stage = "PAYMENT_PENDING"
    BY <2>1, StageMoved
  <2>3. DOMAIN t = Columns /\ t.stage = "KYC_IN_PROGRESS" /\ s.payment # "none"
    BY <2>1, <2>2 DEF IsRow, Columns
  <2> QED BY <2>3 DEF Allowed, IsRow
<1>10. CASE op = "activate"
  <2>1. t \in Review!Moved(s, {"FINAL_AGREEMENT_SHARED"}, "ACTIVE")
    BY <1>0, <1>10
  <2> QED BY <1>a, <2>1, StageMoved
<1>11. CASE op = "upload"
  <2>1. PICK r \in Review!Moved(s, {"KYC_IN_PROGRESS"}, "KYC_REVIEW") :
          t = [r EXCEPT !.doc = "REVIEW_PENDING"]
    BY <1>0, <1>11
  <2>2. IsRow(r) /\ r.payment = s.payment /\ r.stage = "KYC_REVIEW"
    BY <2>1, StageMoved
  <2> QED BY <1>a, <2>1, <2>2, ColumnSet
<1>12. CASE op = "delete"
  <2>1. t = Review!Blank
    BY <1>0, <1>12
  <2> QED BY <2>1 DEF Allowed, IsRow, Columns, Review!Blank, Review!Row
<1>13. CASE op \notin {"review", "complete", "draft", "template", "notify", "signed", "final",
                       "link", "paid", "activate", "upload", "delete"}
  <2>1. t = s
    BY <1>0, <1>13
  <2> QED BY <1>a, <2>1
<1> QED BY <1>1, <1>2, <1>3, <1>4, <1>5, <1>6, <1>7, <1>8, <1>9, <1>10, <1>11, <1>12, <1>13

(***************************************************************************)
(* The review page: what it shows and does.                                *)
(***************************************************************************)
AreWork(W) == \A w \in W : DOMAIN w = {"op", "arg", "at", "late"}

ReviewTypes ==
  /\ IsRow(server) /\ AreLoads(loads) /\ AreWork(work)
  /\ DOMAIN past = {"twice", "failed", "again", "back"}
  /\ DOMAIN drafts = {"chosen", "left", "stored"}

\* A clean load is the only one, and brings the company as it is.
CleanLoads == \A i \in DOMAIN loads : loads[i].clean => Len(loads) = 1 /\ loads[i].row = server

\* A page that has seen every change shows a payment if there is one, or waits for the load
\* that brings it.
PaymentSeen ==
  ~unseen /\ company # Review!Blank /\ company.payment = "none" /\ server.payment # "none" =>
    \E w \in work : w.op = "link" /\ w.at = "loading"

\* It also shows a stage past the drafts, as nobody at an admin's page uploads what is signed;
\* and whoever marked the review complete there finds no such stage.
StageSeen ==
  /\ ~unseen /\ company # Review!Blank /\ ~who.view /\ company.stage \notin Review!PastDraft =>
       server.stage \notin Review!PastDraft
  /\ \A w \in work :
       /\ w.op = "signed" => who.view
       /\ w.op = "complete" => ~who.view
       /\ w.op = "complete" /\ w.at = "asked" /\ ~w.late => server.stage \notin Review!PastDraft

Gone == company = Review!Blank /\ loads = <<>> /\ work = {}
Sending == \E w \in work : w.op = "draft" /\ w.at = "asked"

\* What the loop has still to send was not stored, or was in a batch that failed; so are the
\* files chosen, unless the loop is on its way or the company was removed.
DraftsInv ==
  /\ drafts.left \subseteq drafts.chosen
  /\ drafts.left \cap drafts.stored \subseteq past.failed
  /\ Gone \/ Sending \/ drafts.chosen \cap drafts.stored \subseteq past.failed

Reviewed == ~past.again /\ ~past.back /\ past.twice \subseteq past.failed

ReviewInv ==
  /\ ReviewTypes /\ CleanLoads /\ Review!ShowsTheCompany /\ PaymentSeen /\ StageSeen
  /\ DraftsInv /\ Reviewed

LEMMA ReviewInit == FrontInit => ReviewInv
<1> SUFFICES ASSUME Review!ReviewInit PROVE ReviewInv
  BY DEF FrontInit
<1> DEFINE first == [row |-> server, op |-> "page", clean |-> TRUE]
<1>1. IsRow(server)
  BY DEF Review!ReviewInit, Review!Opened, Review!Row, IsRow, Columns
<1>2. loads = <<first>> /\ DOMAIN first = {"row", "op", "clean"} /\ first.row = server
  BY DEF Review!ReviewInit
<1> HIDE DEF first
<1>3. AreLoads(loads) /\ Len(loads) = 1 /\ loads # <<>> /\ \A i \in DOMAIN loads : loads[i] = first
  <2>1. \A e \in {first} : DOMAIN e = {"row", "op", "clean"}
    BY <1>2
  <2>2. loads \in Seq({first})
    BY <1>2
  <2>3. AreLoads(loads)
    BY <2>1, <2>2, LoadsIn
  <2>4. Len(loads) = 1 /\ loads # <<>>
    BY <1>2
  <2>5. \A i \in DOMAIN loads : loads[i] = first
    BY <1>2
  <2> QED BY <2>3, <2>4, <2>5
<1>4. /\ DOMAIN past = {"twice", "failed", "again", "back"} /\ past.twice = {}
      /\ DOMAIN drafts = {"chosen", "left", "stored"}
      /\ drafts.left = {} /\ drafts.chosen = {}
  BY DEF Review!ReviewInit
<1>5. ~past.again /\ ~past.back
  BY DEF Review!ReviewInit
<1>6. company = Review!Blank /\ work = {}
  BY DEF Review!ReviewInit
<1> QED BY <1>1, <1>2, <1>3, <1>4, <1>5, <1>6
        DEF ReviewInv, ReviewTypes, CleanLoads, Review!ShowsTheCompany, PaymentSeen, StageSeen,
            DraftsInv, Reviewed, AreWork

\* A button starts an operation.
LEMMA Started ==
  ASSUME ReviewInv, NEW op, NEW v, Review!Start(op, v),
         op = "signed" => who.view,
         op = "complete" => ~who.view /\ company.stage \notin Review!PastDraft,
         DOMAIN past' = DOMAIN past, past'.twice = past.twice, past'.failed = past.failed,
         ~past'.again, ~past'.back,
         DOMAIN drafts' = DOMAIN drafts, drafts'.chosen = drafts.chosen,
         drafts'.stored = drafts.stored,
         drafts'.left = drafts.left \/ (op = "draft" /\ drafts'.left = drafts.chosen)
  PROVE  ReviewInv'
<1> DEFINE w == [op |-> op, arg |-> v, at |-> "asked", late |-> unseen]
<1>1. /\ work' = work \cup {w} /\ company # Review!Blank /\ \A x \in work : x.op # op
      /\ UNCHANGED <<who, server, company, error, loads, unseen>>
  BY DEF Review!Start, Review!Clickable, Review!Free
<1>2. /\ DOMAIN w = {"op", "arg", "at", "late"} /\ w.op = op /\ w.at = "asked"
      /\ w.late = unseen
  OBVIOUS
<1> HIDE DEF w
<1>3. ReviewTypes'
  BY <1>1, <1>2 DEF ReviewInv, ReviewTypes, AreWork
<1>4. CleanLoads' /\ Review!ShowsTheCompany'
  BY <1>1 DEF ReviewInv, CleanLoads, Review!ShowsTheCompany
<1>5. PaymentSeen'
  BY <1>1 DEF ReviewInv, PaymentSeen
<1>6. StageSeen'
  <2>1. op = "complete" /\ ~unseen => server.stage \notin Review!PastDraft
    BY <1>1 DEF ReviewInv, StageSeen
  <2>2. \A x \in work' : x \in work \/ x = w
    BY <1>1
  <2> QED BY <1>1, <1>2, <2>1, <2>2 DEF ReviewInv, StageSeen
<1>7. DraftsInv'
  <2>1. CASE op = "draft"
    <3>1. ~Sending /\ ~Gone
      BY <1>1, <2>1 DEF Sending, Gone
    <3>2. Sending'
      BY <1>1, <1>2, <2>1 DEF Sending
    <3> QED BY <3>1, <3>2 DEF ReviewInv, DraftsInv
  <2>2. CASE op # "draft"
    <3>1. Sending => Sending'
      BY <1>1 DEF Sending
    <3>2. ~Gone
      BY <1>1 DEF Gone
    <3> QED BY <2>2, <3>1, <3>2 DEF ReviewInv, DraftsInv
  <2> QED BY <2>1, <2>2
<1>8. Reviewed'
  BY DEF ReviewInv, Reviewed
<1> QED BY <1>3, <1>4, <1>5, <1>6, <1>7, <1>8 DEF ReviewInv

LEMMA Clicked ==
  ASSUME ReviewInv, NEW op, NEW v, Review!Start(op, v), UNCHANGED <<drafts, past>>,
         op = "signed" => who.view,
         op = "complete" => ~who.view /\ company.stage \notin Review!PastDraft
  PROVE  ReviewInv'
BY Started DEF ReviewInv, Reviewed

\* An operation that is done, or will not be, leaves the work; the page may be loading again.
LEMMA WorkLeft ==
  ASSUME ReviewInv, NEW w \in work, w.at = "asked",
         work' \in {work \ {w}, (work \ {w}) \cup {[w EXCEPT !.at = "loading"]}}
  PROVE  /\ AreWork(work')
         /\ \A x \in work' : \/ x \in work \ {w}
                             \/ x.op = w.op /\ x.at = "loading"
         /\ \A x \in work : x.at = "loading" => x \in work'
         /\ w.op # "draft" /\ Sending => Sending'
BY DEF ReviewInv, ReviewTypes, AreWork, Sending

\* What the server does for an operation of the page.
LEMMA ServerMoved ==
  ASSUME ReviewInv, NEW op, NEW v, server' \in Review!Effects(server, op, v),
         UNCHANGED <<company, unseen, who>>,
         op = "signed" => who.view,
         AreWork(work'),
         \A x \in work' : \/ x \in work
                          \/ x.op = op /\ x.at = "loading",
         \A x \in work : x.at = "loading" => x \in work',
         op = "link" => \E x \in work' : x.op = "link" /\ x.at = "loading",
         op = "complete" => ~who.view
  PROVE  PaymentSeen' /\ StageSeen' /\ IsRow(server')
<1>1. Allowed(server, op, server')
  BY EffectsAllowed DEF ReviewInv, ReviewTypes
<1>2. IsRow(server')
  BY <1>1 DEF Allowed
<1>3. PaymentSeen'
  <2>1. CASE op = "link"
    BY <2>1 DEF PaymentSeen
  <2>2. CASE op # "link"
    <3>1. server'.payment # "none" => server.payment # "none"
      BY <1>1, <2>2 DEF Allowed
    <3> QED BY <3>1 DEF ReviewInv, PaymentSeen
  <2> QED BY <2>1, <2>2
<1>4. ~who.view => (server'.stage \in Review!PastDraft => server.stage \in Review!PastDraft)
  BY <1>1 DEF Allowed
<1>5. StageSeen'
  <2>1. ~unseen' /\ company' # Review!Blank /\ ~who'.view /\ company'.stage \notin Review!PastDraft =>
          server'.stage \notin Review!PastDraft
    BY <1>4 DEF ReviewInv, StageSeen
  <2>2. ASSUME NEW x \in work'
        PROVE  /\ x.op = "signed" => who'.view
               /\ x.op = "complete" => ~who'.view
               /\ x.op = "complete" /\ x.at = "asked" /\ ~x.late =>
                    server'.stage \notin Review!PastDraft
    <3>1. CASE x \in work
      BY <1>4, <3>1 DEF ReviewInv, StageSeen
    <3>2. CASE x.op = op /\ x.at = "loading"
      BY <3>2
    <3> QED BY <3>1, <3>2
  <2> QED BY <2>1, <2>2 DEF StageSeen
<1> QED BY <1>2, <1>3, <1>5

\* When all loads are dirty, or the change is not seen, nothing is claimed of what is shown.
LEMMA LoadsDirty ==
  ASSUME ReviewInv, loads' = Review!Dirty
  PROVE  AreLoads(loads') /\ CleanLoads' /\ (loads = <<>> => loads' = <<>>)
BY DirtyLoads DEF ReviewInv, ReviewTypes, CleanLoads

\* A load asked for when others are under way is not clean.
CleanIs(t, e) == \A i \in DOMAIN t : t[i].clean => Len(t) = 1 /\ t[i] = e

LEMMA AskedAgain ==
  ASSUME NEW d, AreLoads(d), \A i \in DOMAIN d : d[i].clean = FALSE,
         NEW e, DOMAIN e = {"row", "op", "clean"}, e.clean => d = <<>>,
         NEW t, t = Append(d, e)
  PROVE  AreLoads(t) /\ t # <<>> /\ CleanIs(t, e)
<1> DEFINE R == {d[i] : i \in DOMAIN d} \cup {e}
<1>1. d \in Seq(R)
  BY SeqMonotonic DEF AreLoads
<1>2. \A x \in R : DOMAIN x = {"row", "op", "clean"}
  BY DEF AreLoads
<1> HIDE DEF R
<1>3. e \in R
  BY DEF R
<1>4. t \in Seq(R) /\ Len(t) = Len(d) + 1 /\ t[Len(d) + 1] = e /\ \A i \in 1..Len(d) : t[i] = d[i]
  BY <1>1, <1>3, AppendProperties
<1>5. t # <<>>
  BY <1>1, <1>3, AppendProperties
<1>6. AreLoads(t) /\ DOMAIN t = 1..Len(d) + 1
  BY <1>2, <1>4, LoadsIn, LenProperties
<1>7. Len(d) \in Nat /\ DOMAIN d = 1..Len(d)
  BY LenProperties DEF AreLoads
<1>8. ASSUME NEW i \in DOMAIN t, t[i].clean
      PROVE  Len(t) = 1 /\ t[i] = e
  <2>1. CASE i \in 1..Len(d)
    <3>1. t[i].clean = FALSE
      BY <1>4, <1>7, <2>1
    <3> QED BY <1>8, <3>1
  <2>2. CASE i = Len(d) + 1
    <3>1. t[i] = e
      BY <1>4, <2>2
    <3>2. d = <<>>
      BY <1>8, <3>1
    <3>3. Len(d) = 0
      BY <3>2
    <3> QED BY <1>4, <3>1, <3>3
  <2> QED BY <1>6, <1>7, <1>8, <2>1, <2>2
<1> QED BY <1>5, <1>6, <1>8 DEF CleanIs

LEMMA Reloading ==
  ASSUME ReviewInv, NEW op, loads' = Review!Asked(server', op)
  PROVE  AreLoads(loads') /\ CleanLoads' /\ loads' # <<>>
<1> DEFINE e == [row |-> server', op |-> op, clean |-> loads = <<>>]
           d == Review!Dirty
<1>1. loads' = Append(d, e)
  BY DEF Review!Asked
<1>2. DOMAIN e = {"row", "op", "clean"} /\ e.row = server' /\ e.clean = (loads = <<>>)
  OBVIOUS
<1>3. AreLoads(d) /\ (d = <<>> <=> loads = <<>>) /\ \A i \in DOMAIN d : d[i].clean = FALSE
  BY DirtyLoads DEF ReviewInv, ReviewTypes
<1>4. e.clean => d = <<>>
  <2> HIDE DEF d, e
  <2> QED BY <1>2, <1>3
<1> HIDE DEF e, d
<1>5. AreLoads(loads') /\ loads' # <<>> /\ CleanIs(loads', e)
  BY <1>1, <1>2, <1>3, <1>4, AskedAgain
<1> QED BY <1>2, <1>5 DEF CleanIs, CleanLoads

LEMMA ReviewAnswered ==
  ASSUME ReviewInv, NEW w \in work, w.at = "asked", who' = who,
         \/ Review!succeeded(w) \/ Review!inviteResent(w) \/ Review!companyDeleted(w)
         \/ Review!refused(w) \/ Review!answerLost(w)
         \/ \E f \in drafts.left : Review!draftStored(w, f)
  PROVE  ReviewInv'
<1>w. /\ w.op = "signed" => who.view
      /\ w.op = "complete" => ~who.view
      /\ DOMAIN w = {"op", "arg", "at", "late"}
      /\ AreWork(work)
  BY DEF ReviewInv, StageSeen, ReviewTypes, AreWork
<1>1. CASE Review!succeeded(w)
  <2>1. /\ w.op # "draft" /\ server' \in Review!Effects(server, w.op, w.arg)
        /\ work' = (work \ {w}) \cup {[w EXCEPT !.at = "loading"]}
        /\ loads' = Review!Asked(server', w.op) /\ error' = FALSE
        /\ UNCHANGED <<company, drafts, unseen>>
    BY <1>1 DEF Review!succeeded, Review!Reload, Review!Without
  <2>2. past' = [past EXCEPT !.back = past.back \/ Review!TakesBack(w)]
    BY <1>1 DEF Review!succeeded
  <2>3. AreLoads(loads') /\ CleanLoads' /\ loads' # <<>>
    BY <2>1, Reloading
  <2>4. /\ AreWork(work')
        /\ \A x \in work' : x \in work \/ (x.op = w.op /\ x.at = "loading")
        /\ \A x \in work : x.at = "loading" => x \in work'
        /\ Sending => Sending'
    BY <2>1, WorkLeft
  <2>5. [w EXCEPT !.at = "loading"] \in work' /\ [w EXCEPT !.at = "loading"].op = w.op
        /\ [w EXCEPT !.at = "loading"].at = "loading"
    BY <1>w, <2>1
  <2>6. PaymentSeen' /\ StageSeen' /\ IsRow(server')
    BY <1>w, <2>1, <2>4, <2>5, ServerMoved
  <2>7. ~Review!TakesBack(w)
    BY DEF Review!TakesBack, ReviewInv, StageSeen
  <2>8. /\ DOMAIN past' = {"twice", "failed", "again", "back"}
        /\ past'.twice = past.twice /\ past'.failed = past.failed
        /\ past'.again = past.again /\ past'.back = (past.back \/ Review!TakesBack(w))
    BY <2>2 DEF ReviewInv, ReviewTypes
  <2>9. Reviewed'
    BY <2>7, <2>8 DEF ReviewInv, Reviewed
  <2>10. DraftsInv'
    <3>1. ~Gone
      BY DEF Gone
    <3> QED BY <2>1, <2>4, <2>8, <3>1 DEF ReviewInv, DraftsInv
  <2> QED BY <2>1, <2>3, <2>4, <2>6, <2>8, <2>9, <2>10
          DEF ReviewInv, ReviewTypes, Review!ShowsTheCompany
<1>2. CASE Review!inviteResent(w)
  <2>1. /\ w.op = "invite" /\ work' = work \ {w}
        /\ UNCHANGED <<server, company, error, loads, drafts, unseen, past>>
    BY <1>2 DEF Review!inviteResent, Review!Without
  <2>2. AreWork(work') /\ (Sending => Sending')
    BY <2>1, WorkLeft
  <2>3. PaymentSeen'
    BY <2>1 DEF ReviewInv, PaymentSeen
  <2>4. ~Gone
    BY DEF Gone
  <2> QED BY <2>1, <2>2, <2>3, <2>4
          DEF ReviewInv, ReviewTypes, CleanLoads, Review!ShowsTheCompany, StageSeen, DraftsInv, Reviewed
<1>3. CASE Review!companyDeleted(w)
  <2>1. /\ server' = Review!Blank /\ company' = Review!Blank /\ work' = {} /\ loads' = <<>>
        /\ UNCHANGED <<drafts, unseen, past>>
    BY <1>3 DEF Review!companyDeleted
  <2>2. IsRow(Review!Blank)
    BY DEF IsRow, Columns, Review!Blank, Review!Row
  <2>3. AreLoads(<<>>)
    BY LoadsIn, \A e \in {} : DOMAIN e = {"row", "op", "clean"}, <<>> \in Seq({})
  <2>4. Gone'
    BY <2>1 DEF Gone
  <2>5. CleanLoads'
    BY <2>1 DEF CleanLoads
  <2> QED BY <2>1, <2>2, <2>3, <2>4, <2>5
          DEF ReviewInv, ReviewTypes, AreWork, Review!ShowsTheCompany, PaymentSeen,
              StageSeen, DraftsInv, Reviewed
<1>4. CASE Review!refused(w)
  <2>1. /\ work' = work \ {w} /\ UNCHANGED <<server, company, error, loads, drafts, unseen>>
    BY <1>4 DEF Review!refused, Review!Without
  <2>2. past' = [past EXCEPT !.failed = IF w.op = "draft" THEN past.failed \cup drafts.chosen
                                        ELSE past.failed]
    BY <1>4 DEF Review!refused, Review!Failure
  <2>3. AreWork(work') /\ (w.op # "draft" /\ Sending => Sending')
    BY <2>1, WorkLeft
  <2>4. PaymentSeen'
    BY <2>1 DEF ReviewInv, PaymentSeen
  <2>5. /\ DOMAIN past' = {"twice", "failed", "again", "back"} /\ past'.twice = past.twice
        /\ past'.again = past.again /\ past'.back = past.back
        /\ past.failed \subseteq past'.failed
        /\ w.op = "draft" => drafts.chosen \subseteq past'.failed
    BY <2>2 DEF ReviewInv, ReviewTypes
  <2>6. DraftsInv'
    <3>1. ~Gone
      BY DEF Gone
    <3> QED BY <2>1, <2>3, <2>5, <3>1 DEF ReviewInv, DraftsInv
  <2>7. Reviewed'
    BY <2>5 DEF ReviewInv, Reviewed
  <2> QED BY <2>1, <2>3, <2>4, <2>5, <2>6, <2>7
          DEF ReviewInv, ReviewTypes, CleanLoads, Review!ShowsTheCompany, StageSeen
<1>5. CASE Review!answerLost(w)
  <2>1. /\ w.op # "draft" /\ server' \in Review!Effects(server, w.op, w.arg)
        /\ work' = work \ {w} /\ loads' = Review!Dirty /\ unseen' = TRUE
        /\ UNCHANGED <<company, error, drafts>>
    BY <1>5 DEF Review!answerLost, Review!Without
  <2>2. past' = [past EXCEPT !.failed = past.failed]
    BY <1>5, <2>1 DEF Review!answerLost, Review!Failure
  <2>3. /\ DOMAIN past' = {"twice", "failed", "again", "back"} /\ past'.twice = past.twice
        /\ past'.again = past.again /\ past'.back = past.back /\ past'.failed = past.failed
    BY <2>2 DEF ReviewInv, ReviewTypes
  <2>4. AreLoads(loads') /\ CleanLoads'
    BY <2>1, LoadsDirty
  <2>5. Allowed(server, w.op, server')
    BY <2>1, EffectsAllowed DEF ReviewInv, ReviewTypes
  <2>6. AreWork(work') /\ (Sending => Sending')
    BY <2>1, WorkLeft
  <2>7. StageSeen'
    <3>1. ASSUME NEW x \in work', x.op = "complete", x.at = "asked", ~x.late
          PROVE  server'.stage \notin Review!PastDraft
      <4>1. ~who.view /\ server.stage \notin Review!PastDraft
        BY <2>1, <3>1 DEF ReviewInv, StageSeen
      <4> QED BY <1>w, <2>5, <4>1 DEF Allowed
    <3> QED BY <2>1, <3>1 DEF ReviewInv, StageSeen
  <2>8. DraftsInv'
    <3>1. ~Gone
      BY DEF Gone
    <3> QED BY <2>1, <2>3, <2>6, <3>1 DEF ReviewInv, DraftsInv
  <2>9. Reviewed'
    BY <2>3 DEF ReviewInv, Reviewed
  <2> QED BY <2>1, <2>3, <2>4, <2>5, <2>6, <2>7, <2>8, <2>9
          DEF ReviewInv, ReviewTypes, Review!ShowsTheCompany, PaymentSeen, Allowed
<1>6. ASSUME NEW f \in drafts.left, Review!draftStored(w, f)
      PROVE  ReviewInv'
  <2>1. /\ w.op = "draft" /\ server' \in Review!Effects(server, "draft", "none")
        /\ UNCHANGED company
    BY <1>6 DEF Review!draftStored
  <2>2. past' = [past EXCEPT !.twice = past.twice \cup (drafts.stored \cap {f})]
    BY <1>6 DEF Review!draftStored
  <2>3. /\ DOMAIN past' = {"twice", "failed", "again", "back"}
        /\ past'.twice = past.twice \cup (drafts.stored \cap {f})
        /\ past'.again = past.again /\ past'.back = past.back /\ past'.failed = past.failed
    BY <2>2 DEF ReviewInv, ReviewTypes
  <2>4. Reviewed'
    BY <2>3 DEF ReviewInv, DraftsInv, Reviewed
  <2>5. CASE drafts.left = {f}
    <3>1. /\ work' = (work \ {w}) \cup {[w EXCEPT !.at = "loading"]}
          /\ loads' = Review!Asked(server', w.op) /\ UNCHANGED unseen
          /\ drafts' = [chosen |-> {}, left |-> {}, stored |-> drafts.stored \cup {f}]
      BY <1>6, <2>5 DEF Review!draftStored, Review!Reload, Review!Without, Review!ClearedFiles
    <3>2. AreLoads(loads') /\ CleanLoads' /\ loads' # <<>>
      BY <3>1, Reloading
    <3>3. /\ AreWork(work')
          /\ \A x \in work' : x \in work \/ (x.op = "draft" /\ x.at = "loading")
          /\ \A x \in work : x.at = "loading" => x \in work'
      BY <2>1, <3>1, WorkLeft
    <3>4. PaymentSeen' /\ StageSeen' /\ IsRow(server')
      BY <2>1, <3>1, <3>3, ServerMoved
    <3>5. DraftsInv' /\ DOMAIN drafts' = {"chosen", "left", "stored"}
      BY <3>1 DEF DraftsInv
    <3> QED BY <2>3, <2>4, <3>1, <3>2, <3>3, <3>4, <3>5
            DEF ReviewInv, ReviewTypes, Review!ShowsTheCompany
  <2>6. CASE drafts.left # {f}
    <3>1. /\ UNCHANGED <<work, error>> /\ loads' = Review!Dirty /\ unseen' = TRUE
          /\ drafts' = [drafts EXCEPT !.left = @ \ {f}, !.stored = @ \cup {f}]
      BY <1>6, <2>6 DEF Review!draftStored
    <3> DEFINE mid == [drafts EXCEPT !.left = @ \ {f}]
    <3>2. DOMAIN mid = {"chosen", "left", "stored"} /\ mid.left = drafts.left \ {f}
          /\ mid.chosen = drafts.chosen /\ mid.stored = drafts.stored
      BY DEF ReviewInv, ReviewTypes
    <3>3. drafts' = [mid EXCEPT !.stored = @ \cup {f}]
      BY <3>1
    <3> HIDE DEF mid
    <3>4. /\ DOMAIN drafts' = {"chosen", "left", "stored"} /\ drafts'.left = drafts.left \ {f}
          /\ drafts'.chosen = drafts.chosen /\ drafts'.stored = drafts.stored \cup {f}
      BY <3>2, <3>3
    <3>5. AreLoads(loads') /\ CleanLoads'
      BY <3>1, LoadsDirty
    <3>6. Allowed(server, "draft", server')
      BY <2>1, EffectsAllowed DEF ReviewInv, ReviewTypes
    <3>7. StageSeen'
      <4>1. ASSUME NEW x \in work', x.op = "complete", x.at = "asked", ~x.late
            PROVE  server'.stage \notin Review!PastDraft
        BY <3>1, <3>6, <4>1 DEF Allowed, ReviewInv, StageSeen
      <4> QED BY <3>1, <4>1 DEF ReviewInv, StageSeen
    <3>8. Sending'
      BY <2>1, <3>1 DEF Sending
    <3>9. DraftsInv'
      BY <2>3, <3>4, <3>8 DEF ReviewInv, DraftsInv
    <3> QED BY <2>3, <2>4, <3>1, <3>4, <3>5, <3>6, <3>7, <3>9
            DEF ReviewInv, ReviewTypes, Review!ShowsTheCompany, PaymentSeen, Allowed
  <2> QED BY <2>5, <2>6
<1> QED BY <1>1, <1>2, <1>3, <1>4, <1>5, <1>6

LEMMA ReviewLoaded ==
  ASSUME ReviewInv, NEW i \in DOMAIN loads, Review!dataLoaded(i)
  PROVE  ReviewInv'
<1>1. /\ loads' = Review!RemoveAt(loads, i)
      /\ work' = {w \in work : w.at # "loading" \/ w.op # loads[i].op}
      /\ UNCHANGED <<who, server, drafts, past>>
      /\ company' = loads[i].row \/ (company' = Review!Blank /\ error' = TRUE)
  BY DEF Review!dataLoaded
<1>2. unseen' = ~loads[i].clean
  BY DEF Review!dataLoaded
<1>3. AreLoads(loads) /\ \A j \in DOMAIN loads : loads[j].clean => Len(loads) = 1 /\ loads[j].row = server
  BY DEF ReviewInv, ReviewTypes, CleanLoads
<1>4. AreLoads(loads') /\ (Len(loads) = 1 => loads' = <<>>)
      /\ loads' \in Seq({loads[j] : j \in DOMAIN loads})
  BY <1>1, <1>3, OneLoadLess
<1>5. CleanLoads'
  <2> SUFFICES ASSUME NEW j \in DOMAIN loads', loads'[j].clean
               PROVE  FALSE
    BY DEF CleanLoads
  <2>1. loads'[j] \in {loads[k] : k \in DOMAIN loads}
    BY <1>4, ElementOfSeq, LenProperties
  <2>2. PICK k \in DOMAIN loads : loads'[j] = loads[k]
    BY <2>1
  <2>3. loads' = <<>>
    BY <1>3, <1>4, <2>2
  <2> QED BY <2>3
<1>6. ~unseen' => loads[i].row = server
  BY <1>2, <1>3
<1>7. ~unseen' => company' = server \/ (company' = Review!Blank /\ error' = TRUE)
  BY <1>1, <1>6
<1>8. work' \subseteq work /\ \A w \in work : w.at = "asked" => w \in work'
  BY <1>1
<1>9. ReviewTypes'
  BY <1>1, <1>4, <1>8 DEF ReviewInv, ReviewTypes, AreWork
<1>10. Review!ShowsTheCompany' /\ PaymentSeen'
  BY <1>1, <1>7 DEF Review!ShowsTheCompany, PaymentSeen
<1>11. StageSeen'
  BY <1>1, <1>7, <1>8 DEF ReviewInv, StageSeen
<1>12. DraftsInv'
  <2>1. ~Gone
    BY DEF Gone
  <2>2. Sending => Sending'
    BY <1>8 DEF Sending
  <2> QED BY <1>1, <2>1, <2>2 DEF ReviewInv, DraftsInv
<1> QED BY <1>1, <1>5, <1>9, <1>10, <1>11, <1>12 DEF ReviewInv, Reviewed

LEMMA ReviewRival ==
  ASSUME ReviewInv, Review!rivalMoves
  PROVE  ReviewInv'
<1>1. PICK op \in Review!Elsewhere : server' \in Review!Effects(server, op, "VERIFIED")
  BY DEF Review!rivalMoves
<1>2. /\ unseen' = TRUE /\ loads' = Review!Dirty /\ UNCHANGED <<who, company, error, drafts, past>>
      /\ work' = {[w EXCEPT !.late = TRUE] : w \in work}
  BY DEF Review!rivalMoves
<1>3. IsRow(server')
  BY <1>1, EffectsAllowed DEF ReviewInv, ReviewTypes, Allowed
<1>4. AreLoads(loads') /\ CleanLoads' /\ (loads = <<>> => loads' = <<>>)
  BY <1>2, LoadsDirty
<1>5. \A w \in work :
        LET v == [w EXCEPT !.late = TRUE]
        IN  DOMAIN v = {"op", "arg", "at", "late"} /\ v.op = w.op /\ v.at = w.at /\ v.late = TRUE
  BY DEF ReviewInv, ReviewTypes, AreWork
<1>6. \A v \in work' : \E w \in work :
        DOMAIN v = {"op", "arg", "at", "late"} /\ v.op = w.op /\ v.at = w.at /\ v.late = TRUE
  BY <1>2, <1>5
<1>7. AreWork(work')
  BY <1>6 DEF AreWork
<1>8. StageSeen'
  <2>1. \A v \in work' : \E w \in work : v.op = w.op /\ v.late = TRUE
    BY <1>6
  <2> QED BY <1>2, <2>1 DEF ReviewInv, StageSeen
<1>9. DraftsInv'
  <2>1. Sending => Sending'
    <3> SUFFICES ASSUME NEW w \in work, w.op = "draft", w.at = "asked" PROVE Sending'
      BY DEF Sending
    <3>1. [w EXCEPT !.late = TRUE] \in work'
      BY <1>2
    <3> QED BY <1>5, <3>1 DEF Sending
  <2>2. Gone => Gone'
    BY <1>2, <1>4 DEF Gone
  <2> QED BY <1>2, <2>1, <2>2 DEF ReviewInv, DraftsInv
<1> QED BY <1>2, <1>3, <1>4, <1>7, <1>8, <1>9
        DEF ReviewInv, ReviewTypes, Review!ShowsTheCompany, PaymentSeen, Reviewed

LEMMA ReviewClicked ==
  ASSUME ReviewInv,
         \/ Review!handleApprove \/ Review!handleReject \/ Review!handleMarkPendingWithClient
         \/ Review!handleMarkKycComplete \/ Review!handleResendPaymentLink
         \/ Review!handleMarkAsPaid \/ Review!handleResendInvite \/ Review!handleDeleteCompany
         \/ Review!handleGenerateAgreementDraftFromTemplate
         \/ Review!handleNotifyAgreementDraftShared
         \/ Review!handleUploadAggregatorSignedAgreement \/ Review!handleUploadFinalAgreement
         \/ Review!handleActivateSubmit
  PROVE  ReviewInv'
<1> USE DEF Review!AdminClick, Review!Click
<1>1. ASSUME NEW v, Review!review(v) PROVE ReviewInv'
  <2>1. Review!Start("review", v) /\ UNCHANGED <<drafts, past>>
    BY <1>1 DEF Review!review
  <2> QED BY <2>1, Clicked
<1>2. CASE Review!handleMarkKycComplete
  <2>1. /\ Review!Start("complete", "none") /\ UNCHANGED <<drafts, past>> /\ ~who.view
        /\ company.stage = "KYC_REVIEW"
    BY <1>2 DEF Review!handleMarkKycComplete, Review!canMarkKycComplete
  <2>2. company.stage \notin Review!PastDraft
    BY <2>1 DEF Review!PastDraft
  <2> QED BY <2>1, <2>2, Clicked
<1>3. CASE Review!handleUploadAggregatorSignedAgreement
  <2>1. Review!Start("signed", "none") /\ UNCHANGED <<drafts, past>> /\ who.view
    BY <1>3 DEF Review!handleUploadAggregatorSignedAgreement
  <2> QED BY <2>1, Clicked
<1>4. ASSUME NEW op, Review!Start(op, "none"), UNCHANGED <<drafts, past>>, op # "signed",
             op # "complete"
      PROVE  ReviewInv'
  BY <1>4, Clicked
<1>5. CASE Review!handleResendPaymentLink
  <2>1. Review!Start("resend", "none") /\ UNCHANGED <<drafts, past>>
    BY <1>5 DEF Review!handleResendPaymentLink
  <2> QED BY <1>4, <2>1
<1>6. CASE Review!handleMarkAsPaid
  <2>1. Review!Start("paid", "none") /\ UNCHANGED <<drafts, past>>
    BY <1>6 DEF Review!handleMarkAsPaid
  <2> QED BY <1>4, <2>1
<1>7. CASE Review!handleResendInvite
  <2>1. Review!Start("invite", "none") /\ UNCHANGED <<drafts, past>>
    BY <1>7 DEF Review!handleResendInvite
  <2> QED BY <1>4, <2>1
<1>8. CASE Review!handleDeleteCompany
  <2>1. Review!Start("delete", "none") /\ UNCHANGED <<drafts, past>>
    BY <1>8 DEF Review!handleDeleteCompany
  <2> QED BY <1>4, <2>1
<1>9. CASE Review!handleGenerateAgreementDraftFromTemplate
  <2>1. Review!Start("template", "none") /\ UNCHANGED <<drafts, past>>
    BY <1>9 DEF Review!handleGenerateAgreementDraftFromTemplate
  <2> QED BY <1>4, <2>1
<1>10. CASE Review!handleNotifyAgreementDraftShared
  <2>1. Review!Start("notify", "none") /\ UNCHANGED <<drafts, past>>
    BY <1>10 DEF Review!handleNotifyAgreementDraftShared
  <2> QED BY <1>4, <2>1
<1>11. CASE Review!handleUploadFinalAgreement
  <2>1. Review!Start("final", "none") /\ UNCHANGED <<drafts, past>>
    BY <1>11 DEF Review!handleUploadFinalAgreement
  <2> QED BY <1>4, <2>1
<1>12. CASE Review!handleActivateSubmit
  <2>1. Review!Start("activate", "none") /\ UNCHANGED <<drafts, past>>
    BY <1>12 DEF Review!handleActivateSubmit
  <2> QED BY <1>4, <2>1
<1> QED BY <1>1, <1>2, <1>3, <1>5, <1>6, <1>7, <1>8, <1>9, <1>10, <1>11, <1>12
        DEF Review!handleApprove, Review!handleReject, Review!handleMarkPendingWithClient

\* A second link is not asked for: where there is a payment the page shows it, or the button is
\* still busy with the first.
LEMMA LinkAsked ==
  ASSUME ReviewInv, Review!handleGeneratePaymentLink
  PROVE  ReviewInv'
<1>1. Review!Start("link", "none") /\ company.payment = "none" /\ UNCHANGED drafts
  BY DEF Review!handleGeneratePaymentLink
<1>2. past' = [past EXCEPT !.again = past.again \/ (server.payment # "none" /\ ~unseen)]
  BY DEF Review!handleGeneratePaymentLink
<1>3. /\ DOMAIN past' = DOMAIN past /\ past'.twice = past.twice /\ past'.failed = past.failed
      /\ past'.back = past.back
      /\ past'.again = (past.again \/ (server.payment # "none" /\ ~unseen))
  BY <1>2 DEF ReviewInv, ReviewTypes
<1>4. ~(server.payment # "none" /\ ~unseen)
  BY <1>1 DEF Review!Start, Review!Clickable, Review!Free, ReviewInv, PaymentSeen
<1>5. ~past'.again /\ ~past'.back
  BY <1>3, <1>4 DEF ReviewInv, Reviewed
<1> QED BY <1>1, <1>3, <1>5, Started

LEMMA DraftsSent ==
  ASSUME ReviewInv, Review!handleUploadAgreementDraft
  PROVE  ReviewInv'
<1>1. Review!Start("draft", "none") /\ UNCHANGED past
  BY DEF Review!handleUploadAgreementDraft
<1>2. drafts' = [drafts EXCEPT !.left = drafts.chosen]
  BY DEF Review!handleUploadAgreementDraft
<1>3. /\ DOMAIN drafts' = DOMAIN drafts /\ drafts'.chosen = drafts.chosen
      /\ drafts'.stored = drafts.stored /\ drafts'.left = drafts.chosen
  BY <1>2 DEF ReviewInv, ReviewTypes
<1> QED BY <1>1, <1>3, Started DEF ReviewInv, Reviewed

LEMMA DraftsChosen ==
  ASSUME ReviewInv, Review!setAgreementDraftFiles
  PROVE  ReviewInv'
<1>1. /\ UNCHANGED <<who, server, company, error, loads, work, unseen, past>>
      /\ drafts.chosen = {}
  BY DEF Review!setAgreementDraftFiles
<1>2. PICK last \in Draft \ drafts.stored :
        drafts' = [drafts EXCEPT !.chosen = {f \in Draft \ drafts.stored : f <= last}]
  BY DEF Review!setAgreementDraftFiles
<1> DEFINE batch == {f \in Draft \ drafts.stored : f <= last}
<1>3. batch \cap drafts.stored = {} /\ drafts' = [drafts EXCEPT !.chosen = batch]
  BY <1>2
<1> HIDE DEF batch
<1>4. /\ DOMAIN drafts' = {"chosen", "left", "stored"} /\ drafts'.chosen = batch
      /\ drafts'.left = drafts.left /\ drafts'.stored = drafts.stored
  BY <1>3 DEF ReviewInv, ReviewTypes
<1>5. DraftsInv'
  BY <1>1, <1>3, <1>4 DEF ReviewInv, DraftsInv
<1> QED BY <1>1, <1>4, <1>5
        DEF ReviewInv, ReviewTypes, CleanLoads, Review!ShowsTheCompany, PaymentSeen, StageSeen, Reviewed

LEMMA ReviewUnchanged ==
  ASSUME ReviewInv, UNCHANGED <<who, server, company, error, loads, work, drafts, unseen, past>>
  PROVE  ReviewInv'
BY DEF ReviewInv, ReviewTypes, CleanLoads, Review!ShowsTheCompany, PaymentSeen, StageSeen,
       DraftsInv, Gone, Sending, Reviewed

LEMMA ReviewSafe ==
  ASSUME ReviewInv, [FrontNext]_frontVars
  PROVE  ReviewInv'
<1>1. CASE UNCHANGED reviewVars
  BY <1>1, ReviewUnchanged DEF reviewVars
<1>2. CASE Review!rivalMoves
  BY <1>2, ReviewRival
<1>3. CASE \E i \in DOMAIN loads : Review!dataLoaded(i)
  BY <1>3, ReviewLoaded
<1>4. CASE Review!handleGeneratePaymentLink
  BY <1>4, LinkAsked
<1>5. CASE Review!setAgreementDraftFiles
  BY <1>5, DraftsChosen
<1>6. CASE Review!handleUploadAgreementDraft
  BY <1>6, DraftsSent
<1>7. CASE Review!openActivateModal \/ Review!closeActivateModal
  BY <1>7, ReviewUnchanged DEF Review!openActivateModal, Review!closeActivateModal
<1>8. CASE Review!answered
  <2>1. PICK w \in work :
          /\ w.at = "asked"
          /\ \/ Review!succeeded(w) \/ Review!inviteResent(w) \/ Review!companyDeleted(w)
             \/ Review!refused(w) \/ Review!answerLost(w)
             \/ \E f \in drafts.left : Review!draftStored(w, f)
    BY <1>8 DEF Review!answered
  <2>2. who' = who
    BY <1>8 DEF Review!answered
  <2> QED BY <2>1, <2>2, ReviewAnswered
<1>9. Review!ReviewNext \/ UNCHANGED reviewVars
  BY PageSteps
<1> QED BY <1>1, <1>2, <1>3, <1>4, <1>5, <1>6, <1>7, <1>8, <1>9, ReviewClicked
        DEF Review!ReviewNext

\* A page on which a company is reviewed shows the company as it is once its loads have come;
\* it asks for no second payment link, takes no company back to the draft and stores no draft
\* twice, unless the company changed elsewhere or a batch failed: AdminCompanyDetail.tsx.
THEOREM Reviewed_as_shown == FrontSpec => []ReviewedAsShown
<1>1. ReviewInv => ReviewedAsShown
  BY DEF ReviewInv, Reviewed, ReviewedAsShown, Review!OnePaymentLink,
         Review!KycCompleteOnlyForward, Review!DraftsStoredOnce
<1> QED BY <1>1, ReviewInit, ReviewSafe, PTL DEF FrontSpec

(***************************************************************************)
(* The money of a payment: rounding.                                       *)
(***************************************************************************)
LEMMA Rounding ==
  ASSUME NEW b \in Nat
  PROVE  /\ Money!round2(b) \in Nat
         /\ 10 * Money!round2(b) - b \in -5..5
         /\ b % 10 = 0 => 10 * Money!round2(b) = b
         /\ \A m \in Nat : Money!round2(10 * m) = m /\ Money!round2(b + 10 * m) = Money!round2(b) + m
BY DEF Money!round2

LEMMA RoundedBase ==
  ASSUME NEW t \in Nat, NEW q, q = Money!round2(t), NEW w, w = 10 * q
  PROVE  /\ q \in Nat /\ w \in Nat /\ w - t \in -5..5 /\ Money!round2(w) = q
         /\ t % 10 = 0 => w = t
<1>1. q \in Nat /\ 10 * q - t \in -5..5 /\ (t % 10 = 0 => 10 * q = t)
  BY Rounding, Zenon
<1>2. Money!round2(10 * q) = q
  BY <1>1, Rounding, Zenon
<1>3. w \in Nat
  BY <1>1
<1> QED BY <1>1, <1>2, <1>3, Zenon

LEMMA RoundedTotal ==
  ASSUME NEW b \in Nat, NEW m \in Nat
  PROVE  Money!round2(b + 10 * m) = Money!round2(b) + m
BY Rounding

LEMMA SmallProduct ==
  ASSUME NEW k \in -5..5, NEW r \in Nat, r <= 10000
  PROVE  -50000 <= k * r /\ k * r <= 50000
<1>1. k \in Int /\ r \in Int /\ r >= 0 /\ -5 <= k /\ k <= 5
  OBVIOUS
<1>2. k * r <= 5 * r
  BY <1>1
<1>3. (-5) * r <= k * r
  BY <1>1
<1> QED BY <1>1, <1>2, <1>3

LEMMA Distributed ==
  ASSUME NEW w \in Int, NEW k \in Int, NEW r \in Int
  PROVE  2 * (w + k) * r = 2 * w * r + 2 * (k * r)
OBVIOUS

LEMMA Halves ==
  ASSUME NEW x \in Nat, NEW y \in Nat, NEW z \in Int, -50000 <= z, z <= 50000, x = y + 2 * z
  PROVE  (x + 100000) \div 200000 - (y + 100000) \div 200000 \in -1..1
OBVIOUS

\* Bases that differ by half a paisa at most have taxes that differ by a paisa at most.
LEMMA TaxNear ==
  ASSUME NEW v \in Nat, NEW w \in Nat, v - w \in -5..5, NEW r \in Nat, r <= 10000
  PROVE  Money!taxOn(v, r) - Money!taxOn(w, r) \in -1..1
<1>1. PICK k \in -5..5 : v = w + k
  <2>1. v = w + (v - w)
    OBVIOUS
  <2> QED BY <2>1
<1>2. k \in Int /\ 2 * v * r = 2 * w * r + 2 * (k * r)
  BY <1>1, Distributed
<1>3. -50000 <= k * r /\ k * r <= 50000
  BY SmallProduct
<1>4. 2 * v * r \in Nat /\ 2 * w * r \in Nat /\ k * r \in Int
  BY <1>2
<1>5. ASSUME NEW x, x = 2 * v * r, NEW y, y = 2 * w * r, NEW z, z = k * r
      PROVE  Money!taxOn(v, r) - Money!taxOn(w, r) \in -1..1
  <2>1. Money!taxOn(v, r) = (x + 100000) \div 200000 /\ Money!taxOn(w, r) = (y + 100000) \div 200000
    BY <1>5 DEF Money!taxOn
  <2>2. x \in Nat /\ y \in Nat /\ z \in Int
    BY <1>4, <1>5
  <2>3. -50000 <= z /\ z <= 50000
    BY <1>3, <1>5
  <2>4. x = y + 2 * z
    BY <1>2, <1>5
  <2> QED BY <2>1, <2>2, <2>3, <2>4, Halves
<1> QED BY <1>5

LEMMA TaxIsWhole ==
  ASSUME NEW v \in Nat, NEW r \in Nat
  PROVE  Money!taxOn(v, r) \in Nat
<1> DEFINE x == 2 * v * r
<1>1. x \in Nat
  OBVIOUS
<1>2. Money!taxOn(v, r) = (x + 100000) \div 200000
  BY DEF Money!taxOn
<1> HIDE DEF x
<1> QED BY <1>1, <1>2

(***************************************************************************)
(* The money of a payment: its amounts, by the kind of its taxes.          *)
(***************************************************************************)
LEMMA TotalsFields ==
  ASSUME NEW in, NEW c, NEW s, NEW i, NEW total, NEW t, t = Money!Totals(in, c, s, i, total)
  PROVE  /\ t.gstMode = in.gstMode /\ t.cgst = c /\ t.sgst = s /\ t.igst = i /\ t.total = total
         /\ in.gstMode = "NONE" => t.taxable = Money!round2(in.amount)
         /\ in.gstMode # "NONE" => t.taxable = Money!round2(in.taxable)
         /\ t.rates.cgst = IF in.gstMode = "CGST_SGST" THEN in.cgst ELSE Money!NaN
         /\ t.rates.sgst = IF in.gstMode = "CGST_SGST" THEN in.sgst ELSE Money!NaN
         /\ t.rates.igst = IF in.gstMode = "IGST" THEN in.igst ELSE Money!NaN
BY DEF Money!Totals

LEMMA InputFields ==
  ASSUME NEW m, NEW a, NEW t, NEW c, NEW s, NEW i, NEW in, in = Money!Input(m, a, t, c, s, i)
  PROVE  in.gstMode = m /\ in.amount = a /\ in.taxable = t /\ in.cgst = c /\ in.sgst = s /\ in.igst = i
BY DEF Money!Input

\* The amounts there are, of an input with fields.
LEMMA TaxedPlain ==
  ASSUME NEW in, in.gstMode = "NONE", Money!Taxed(in) # Money!Nothing
  PROVE  in.amount > 0 /\ Money!Taxed(in) = Money!Totals(in, 0, 0, 0, Money!round2(in.amount))
BY DEF Money!Taxed, Money!TotalsOf

LEMMA TaxedSplit ==
  ASSUME NEW in, in.gstMode = "CGST_SGST", Money!Taxed(in) # Money!Nothing
  PROVE  LET c == Money!taxOn(in.taxable, in.cgst)
             s == Money!taxOn(in.taxable, in.sgst)
         IN  /\ in.taxable > 0 /\ in.cgst # Money!NaN /\ in.sgst # Money!NaN
             /\ Money!Taxed(in) = Money!Totals(in, c, s, 0, Money!round2(in.taxable + 10 * (c + s)))
BY DEF Money!Taxed, Money!TotalsOf

LEMMA TaxedWhole ==
  ASSUME NEW in, in.gstMode = "IGST", Money!Taxed(in) # Money!Nothing
  PROVE  LET i == Money!taxOn(in.taxable, in.igst)
         IN  /\ in.taxable > 0 /\ in.igst # Money!NaN
             /\ Money!Taxed(in) = Money!Totals(in, 0, 0, i, Money!round2(in.taxable + 10 * i))
BY DEF Money!Taxed, Money!TotalsOf

(***************************************************************************)
(* The money of a payment: what is asked for is what was seen.             *)
(***************************************************************************)
\* Amounts that add up, with the taxes of one kind only.
AddUp(p) ==
  /\ p.taxable \in Nat /\ p.cgst \in Nat /\ p.sgst \in Nat /\ p.igst \in Nat
  /\ p.total = p.taxable + p.cgst + p.sgst + p.igst
  /\ \/ p.gstMode = "NONE" /\ p.cgst = 0 /\ p.sgst = 0 /\ p.igst = 0
     \/ p.gstMode = "CGST_SGST" /\ p.igst = 0
     \/ p.gstMode = "IGST" /\ p.cgst = 0 /\ p.sgst = 0

\* Amounts p of a request made from the preview v of a form with this base.
Linked(p, v, base) ==
  /\ AddUp(p) /\ p.taxable = v.taxable
  /\ base % 10 = 0 => p = v
  /\ Money!Near(p.total, v.total, 2)

LEMMA PlainLink ==
  ASSUME NEW a \in Nat,
         NEW in, in = Money!Input("NONE", a, 0, Money!NaN, Money!NaN, Money!NaN), NEW v, v = Money!Taxed(in),
         v # Money!Nothing,
         NEW req, req = Money!Input("NONE", 10 * v.total, 0, Money!NaN, Money!NaN, Money!NaN),
         NEW p, p = Money!Taxed(req), p # Money!Nothing
  PROVE  Linked(p, v, a) /\ Money!Stored(p) = req
<1>1. in.gstMode = "NONE" /\ in.amount = a
  BY InputFields
<1>2. req.gstMode = "NONE" /\ req.amount = 10 * v.total
  BY InputFields
<1>3. v.total = Money!round2(a) /\ v.taxable = Money!round2(a)
  BY <1>1, TaxedPlain, TotalsFields
<1>4. Money!round2(a) \in Nat
  BY Rounding
<1>5. Money!round2(10 * v.total) = v.total
  BY <1>3, <1>4, Rounding
<1>6. /\ p.gstMode = "NONE" /\ p.cgst = 0 /\ p.sgst = 0 /\ p.igst = 0
      /\ p.total = v.total /\ p.taxable = v.total
      /\ p.rates.cgst = Money!NaN /\ p.rates.sgst = Money!NaN /\ p.rates.igst = Money!NaN
  BY <1>2, <1>5, TaxedPlain, TotalsFields
<1>7. AddUp(p)
  BY <1>3, <1>4, <1>6 DEF AddUp
<1>8. a % 10 = 0 => p = v
  <2> SUFFICES ASSUME a % 10 = 0 PROVE p = v
    OBVIOUS
  <2>1. 10 * v.total = a
    BY <1>3, Rounding
  <2>2. req = in
    BY <2>1
  <2> QED BY <2>2
<1>9. Money!Near(p.total, v.total, 2)
  BY <1>3, <1>4, <1>6 DEF Money!Near
<1>10. Money!Stored(p) = req
  BY <1>6 DEF Money!Stored
<1> QED BY <1>3, <1>6, <1>7, <1>8, <1>9, <1>10 DEF Linked

LEMMA SplitLink ==
  ASSUME NEW t \in Nat, NEW c \in Nat, NEW s \in Nat, c <= 10000, s <= 10000,
         NEW in, in = Money!Input("CGST_SGST", 0, t, c, s, Money!NaN), NEW v, v = Money!Taxed(in),
         v # Money!Nothing,
         NEW req, req = Money!Input("CGST_SGST", 0, 10 * v.taxable, c, s, Money!NaN),
         NEW p, p = Money!Taxed(req), p # Money!Nothing
  PROVE  Linked(p, v, t) /\ Money!Stored(p) = req
<1>1. in.gstMode = "CGST_SGST" /\ in.taxable = t /\ in.cgst = c /\ in.sgst = s
  BY InputFields
<1>2. req.gstMode = "CGST_SGST" /\ req.taxable = 10 * v.taxable /\ req.cgst = c /\ req.sgst = s
  BY InputFields
<1>a. PICK w : w = 10 * v.taxable
  OBVIOUS
<1>b. PICK c1, s1, c2, s2 : /\ c1 = Money!taxOn(t, c) /\ s1 = Money!taxOn(t, s)
                            /\ c2 = Money!taxOn(w, c) /\ s2 = Money!taxOn(w, s)
  OBVIOUS
<1>3. v = Money!Totals(in, c1, s1, 0, Money!round2(t + 10 * (c1 + s1)))
  BY <1>1, <1>b, TaxedSplit
<1>4. v.taxable = Money!round2(t) /\ v.total = Money!round2(t + 10 * (c1 + s1))
  BY <1>1, <1>3, TotalsFields
<1>5. v.taxable \in Nat /\ w \in Nat /\ w - t \in -5..5 /\ Money!round2(w) = v.taxable
  BY <1>4, <1>a, RoundedBase
<1>6. c1 \in Nat /\ s1 \in Nat /\ c2 \in Nat /\ s2 \in Nat
  BY <1>5, <1>b, TaxIsWhole
<1>7. p = Money!Totals(req, c2, s2, 0, Money!round2(w + 10 * (c2 + s2)))
  BY <1>2, <1>a, <1>b, TaxedSplit
<1>8. c2 - c1 \in -1..1 /\ s2 - s1 \in -1..1
  BY <1>5, <1>b, TaxNear
<1>9. /\ p.gstMode = "CGST_SGST" /\ p.cgst = c2 /\ p.sgst = s2 /\ p.igst = 0
      /\ p.total = Money!round2(w + 10 * (c2 + s2)) /\ p.taxable = Money!round2(req.taxable)
      /\ p.rates.cgst = c /\ p.rates.sgst = s /\ p.rates.igst = Money!NaN
  BY <1>2, <1>7, TotalsFields
<1>10. p.taxable = v.taxable
  BY <1>2, <1>5, <1>9, <1>a
<1>11. Money!round2(w + 10 * (c2 + s2)) = v.taxable + (c2 + s2)
  <2>1. (c2 + s2) \in Nat /\ w \in Nat
    BY <1>5, <1>6
  <2>2. Money!round2(w + 10 * (c2 + s2)) = Money!round2(w) + (c2 + s2)
    BY <2>1, RoundedTotal
  <2> QED BY <1>5, <2>2
<1>12. v.total = v.taxable + (c1 + s1)
  <2>1. (c1 + s1) \in Nat
    BY <1>6
  <2>2. Money!round2(t + 10 * (c1 + s1)) = Money!round2(t) + (c1 + s1)
    BY <2>1, RoundedTotal
  <2> QED BY <1>4, <2>2
<1>13. AddUp(p)
  BY <1>5, <1>6, <1>9, <1>10, <1>11 DEF AddUp
<1>14. t % 10 = 0 => p = v
  <2> SUFFICES ASSUME t % 10 = 0 PROVE p = v
    OBVIOUS
  <2>1. w = t
    BY <1>4, <1>a, RoundedBase
  <2>2. req = in
    BY <2>1, <1>a
  <2> QED BY <2>2
<1>15. Money!Near(p.total, v.total, 2)
  BY <1>5, <1>6, <1>8, <1>9, <1>11, <1>12 DEF Money!Near
<1>16. Money!Stored(p) = req
  BY <1>9, <1>10 DEF Money!Stored
<1> QED BY <1>10, <1>13, <1>14, <1>15, <1>16 DEF Linked

LEMMA WholeLink ==
  ASSUME NEW t \in Nat, NEW r \in Nat, r <= 10000,
         NEW in, in = Money!Input("IGST", 0, t, Money!NaN, Money!NaN, r), NEW v, v = Money!Taxed(in),
         v # Money!Nothing,
         NEW req, req = Money!Input("IGST", 0, 10 * v.taxable, Money!NaN, Money!NaN, r),
         NEW p, p = Money!Taxed(req), p # Money!Nothing
  PROVE  Linked(p, v, t) /\ Money!Stored(p) = req
<1>1. in.gstMode = "IGST" /\ in.taxable = t /\ in.igst = r
  BY InputFields
<1>2. req.gstMode = "IGST" /\ req.taxable = 10 * v.taxable /\ req.igst = r
  BY InputFields
<1>a. PICK w : w = 10 * v.taxable
  OBVIOUS
<1>b. PICK i1, i2 : i1 = Money!taxOn(t, r) /\ i2 = Money!taxOn(w, r)
  OBVIOUS
<1>3. v = Money!Totals(in, 0, 0, i1, Money!round2(t + 10 * i1))
  BY <1>1, <1>b, TaxedWhole
<1>4. v.taxable = Money!round2(t) /\ v.total = Money!round2(t + 10 * i1)
  BY <1>1, <1>3, TotalsFields
<1>5. v.taxable \in Nat /\ w \in Nat /\ w - t \in -5..5 /\ Money!round2(w) = v.taxable
  BY <1>4, <1>a, RoundedBase
<1>6. i1 \in Nat /\ i2 \in Nat
  BY <1>5, <1>b, TaxIsWhole
<1>7. p = Money!Totals(req, 0, 0, i2, Money!round2(w + 10 * i2))
  BY <1>2, <1>a, <1>b, TaxedWhole
<1>8. i2 - i1 \in -1..1
  BY <1>5, <1>b, TaxNear
<1>9. /\ p.gstMode = "IGST" /\ p.cgst = 0 /\ p.sgst = 0 /\ p.igst = i2
      /\ p.total = Money!round2(w + 10 * i2) /\ p.taxable = Money!round2(req.taxable)
      /\ p.rates.cgst = Money!NaN /\ p.rates.sgst = Money!NaN /\ p.rates.igst = r
  BY <1>2, <1>7, TotalsFields
<1>10. p.taxable = v.taxable
  BY <1>2, <1>5, <1>9, <1>a
<1>11. Money!round2(w + 10 * i2) = v.taxable + i2
  <2>1. i2 \in Nat /\ w \in Nat
    BY <1>5, <1>6
  <2>2. Money!round2(w + 10 * i2) = Money!round2(w) + i2
    BY <2>1, RoundedTotal
  <2> QED BY <1>5, <2>2
<1>12. v.total = v.taxable + i1
  <2>1. i1 \in Nat
    BY <1>6
  <2>2. Money!round2(t + 10 * i1) = Money!round2(t) + i1
    BY <2>1, RoundedTotal
  <2> QED BY <1>4, <2>2
<1>13. AddUp(p)
  BY <1>5, <1>6, <1>9, <1>10, <1>11 DEF AddUp
<1>14. t % 10 = 0 => p = v
  <2> SUFFICES ASSUME t % 10 = 0 PROVE p = v
    OBVIOUS
  <2>1. w = t
    BY <1>4, <1>a, RoundedBase
  <2>2. req = in
    BY <2>1, <1>a
  <2> QED BY <2>2
<1>15. Money!Near(p.total, v.total, 2)
  BY <1>5, <1>6, <1>8, <1>9, <1>11, <1>12 DEF Money!Near
<1>16. Money!Stored(p) = req
  BY <1>9, <1>10 DEF Money!Stored
<1> QED BY <1>10, <1>13, <1>14, <1>15, <1>16 DEF Linked

(***************************************************************************)
(* The money of a payment: form, link, mails and invoice.                  *)
(***************************************************************************)
FormOK ==
  /\ DOMAIN amounts = {"includeGst", "taxMode", "amount", "taxable", "cgst", "sgst", "igst"}
  /\ amounts.taxMode \in {"CGST_SGST", "IGST"}
  /\ amounts.amount \in Nat /\ amounts.taxable \in Nat
  /\ amounts.cgst \in Nat /\ amounts.sgst \in Nat /\ amounts.igst \in Nat

BaseOf(p) == IF p.gstMode = "NONE" THEN amounts.amount ELSE amounts.taxable

\* The form stays as it was when the button was pressed, and every mail is one of the payment.
AmountsInv ==
  /\ FormOK
  /\ creating # Money!Nothing =>
       /\ payment = Money!Nothing
       /\ Money!canGenerate /\ creating = Money!requested /\ onScreen = Money!preview
  /\ payment # Money!Nothing =>
       /\ Money!canGenerate /\ onScreen = Money!preview
       /\ Money!createPaymentSchema(Money!requested)
       /\ payment = Money!Taxed(Money!requested)
       /\ letter = Money!formatPaymentAmountForEmail(payment)
  /\ billed # Money!Nothing => payment # Money!Nothing /\ billed = Money!InvoiceOf(payment)

\* A payment asked for is linked to the preview, and is calculated again from what is stored.
LEMMA PaymentLinked ==
  ASSUME FormOK, Money!canGenerate, Money!createPaymentSchema(Money!requested),
         NEW p, p = Money!Taxed(Money!requested), p # Money!Nothing
  PROVE  Linked(p, Money!preview, BaseOf(p)) /\ Money!Stored(p) = Money!requested
<1>1. PICK v : v = Money!preview
  OBVIOUS
<1>2. PICK req : req = Money!requested
  OBVIOUS
<1>3. v # Money!Nothing /\ Money!createPaymentSchema(req) /\ p = Money!Taxed(req)
  BY <1>1, <1>2 DEF Money!canGenerate
<1>4. CASE ~amounts.includeGst
  <2>1. v = Money!Taxed(Money!Input("NONE", amounts.amount, 0, Money!NaN, Money!NaN, Money!NaN))
    BY <1>1, <1>4 DEF Money!preview, Money!computeOnPage
  <2>2. req = Money!Input("NONE", 10 * v.total, 0, Money!NaN, Money!NaN, Money!NaN)
    BY <1>1, <1>2, <1>4 DEF Money!requested
  <2>3. Linked(p, v, amounts.amount) /\ Money!Stored(p) = req
    BY <1>3, <2>1, <2>2, PlainLink DEF FormOK
  <2>4. p.gstMode = "NONE"
    BY <1>3, <2>2, InputFields, TaxedPlain, TotalsFields
  <2> QED BY <1>1, <1>2, <2>3, <2>4 DEF BaseOf
<1>5. CASE amounts.includeGst /\ amounts.taxMode = "CGST_SGST"
  <2>1. v = Money!Taxed(Money!Input("CGST_SGST", 0, amounts.taxable, amounts.cgst, amounts.sgst,
                                    Money!NaN))
    BY <1>1, <1>5 DEF Money!preview, Money!computeOnPage
  <2>2. req = Money!Input("CGST_SGST", 0, 10 * v.taxable, amounts.cgst, amounts.sgst, Money!NaN)
    BY <1>1, <1>2, <1>5 DEF Money!requested
  <2>3. req.gstMode = "CGST_SGST" /\ req.cgst = amounts.cgst /\ req.sgst = amounts.sgst
    BY <2>2, InputFields
  <2>4. amounts.cgst <= 10000 /\ amounts.sgst <= 10000
    BY <1>3, <2>3 DEF Money!createPaymentSchema
  <2>5. Linked(p, v, amounts.taxable) /\ Money!Stored(p) = req
    BY <1>3, <2>1, <2>2, <2>4, SplitLink DEF FormOK
  <2>6. p.gstMode = "CGST_SGST"
    BY <1>3, <2>3, TaxedSplit, TotalsFields
  <2> QED BY <1>1, <1>2, <2>5, <2>6 DEF BaseOf
<1>6. CASE amounts.includeGst /\ amounts.taxMode # "CGST_SGST"
  <2>1. v = Money!Taxed(Money!Input("IGST", 0, amounts.taxable, Money!NaN, Money!NaN, amounts.igst))
    BY <1>1, <1>6 DEF Money!preview, Money!computeOnPage
  <2>2. req = Money!Input("IGST", 0, 10 * v.taxable, Money!NaN, Money!NaN, amounts.igst)
    BY <1>1, <1>2, <1>6 DEF Money!requested
  <2>3. req.gstMode = "IGST" /\ req.igst = amounts.igst
    BY <2>2, InputFields
  <2>4. amounts.igst <= 10000
    BY <1>3, <2>3 DEF Money!createPaymentSchema
  <2>5. Linked(p, v, amounts.taxable) /\ Money!Stored(p) = req
    BY <1>3, <2>1, <2>2, <2>4, WholeLink DEF FormOK
  <2>6. p.gstMode = "IGST"
    BY <1>3, <2>3, TaxedWhole, TotalsFields
  <2> QED BY <1>1, <1>2, <2>5, <2>6 DEF BaseOf
<1> QED BY <1>4, <1>5, <1>6

\* A mail about amounts that add up tells parts that do.
LEMMA LetterAddsUp ==
  ASSUME NEW p, AddUp(p), NEW l, l = Money!formatPaymentAmountForEmail(p)
  PROVE  /\ l # Money!Nothing /\ l.total = p.total
         /\ l.parts # <<>> => l.parts[1] + l.parts[2] + l.parts[3] = l.total
<1>1. l.gstMode = p.gstMode /\ l.total = p.total
  BY DEF Money!formatPaymentAmountForEmail
<1>2. l # Money!Nothing
  BY <1>1 DEF AddUp, Money!Nothing
<1>3. CASE p.gstMode = "NONE"
  BY <1>1, <1>2, <1>3 DEF Money!formatPaymentAmountForEmail
<1>4. CASE p.gstMode = "CGST_SGST"
  <2>1. l.parts = <<p.taxable, p.cgst, p.sgst>>
    BY <1>4 DEF Money!formatPaymentAmountForEmail
  <2>2. l.parts[1] = p.taxable /\ l.parts[2] = p.cgst /\ l.parts[3] = p.sgst
    BY <2>1
  <2> QED BY <1>1, <1>2, <1>4, <2>2 DEF AddUp
<1>5. CASE p.gstMode = "IGST"
  <2>1. l.parts = <<p.taxable, p.igst, 0>>
    BY <1>5 DEF Money!formatPaymentAmountForEmail
  <2>2. l.parts[1] = p.taxable /\ l.parts[2] = p.igst /\ l.parts[3] = 0
    BY <2>1
  <2> QED BY <1>1, <1>2, <1>5, <2>2 DEF AddUp
<1> QED BY <1>3, <1>4, <1>5 DEF AddUp

\* The mails repeat the payment: the amounts that are calculated again are the same.
LEMMA SameLetter ==
  ASSUME NEW p
  PROVE  Money!buildEmailBreakdown(p, p) = Money!formatPaymentAmountForEmail(p)
BY DEF Money!buildEmailBreakdown

\* The rates are numbers.
LEMMA RatesAre == GST_RATE \in Nat /\ TDS_RATE \in Nat
BY AmountsAssumption

\* An invoice adds up, and what it asks for is what was paid.
LEMMA InvoiceAddsUp ==
  ASSUME NEW p, AddUp(p), NEW b, b = Money!InvoiceOf(p)
  PROVE  /\ b.total + b.tds = b.amount + b.gst
         /\ b.gst = b.cgst + b.sgst + b.igst
         /\ b.igst = 0 \/ b.cgst + b.sgst = 0
         /\ p.gstMode # "NONE" => b.total + b.tds = p.total * 10000
         /\ p.gstMode = "NONE" => b.amount = p.total * 10000
<1>1. PICK w : w = p.taxable * TDS_RATE
  OBVIOUS
<1>2. w \in Int
  <2>1. TDS_RATE \in Int /\ p.taxable \in Int
    BY RatesAre DEF AddUp
  <2> QED BY <1>1, <2>1
<1>3. CASE p.gstMode # "NONE"
  <2>1. /\ b.amount = p.taxable * 10000 /\ b.tds = w
        /\ b.cgst = p.cgst * 10000 /\ b.sgst = p.sgst * 10000 /\ b.igst = p.igst * 10000
        /\ b.gst = p.cgst * 10000 + p.sgst * 10000 + p.igst * 10000
        /\ b.total = p.total * 10000 - w
    BY <1>1, <1>3 DEF Money!InvoiceOf
  <2> QED BY <1>2, <1>3, <2>1 DEF AddUp
<1>4. CASE p.gstMode = "NONE"
  <2>1. PICK h : h = (p.total * GST_RATE) \div 2
    OBVIOUS
  <2>2. p.total \in Nat /\ p.total = p.taxable
    BY <1>4 DEF AddUp
  <2>3. h \in Nat
    <3>1. p.total * GST_RATE \in Nat
      <4>1. GST_RATE \in Nat
        BY RatesAre
      <4> QED BY <2>2, <4>1
    <3> QED BY <2>1, <3>1
  <2>4. PICK c, i : /\ c = IF inKarnataka THEN h ELSE 0
                    /\ i = IF inKarnataka THEN 0 ELSE 2 * h
    OBVIOUS
  <2>5. c \in Nat /\ i \in Nat /\ (c = 0 \/ i = 0) /\ c + c + i = 2 * h
    BY <2>3, <2>4
  <2>6. /\ b.amount = p.total * 10000 /\ b.tds = w
        /\ b.cgst = c /\ b.sgst = c /\ b.igst = i /\ b.gst = c + c + i
        /\ b.total = p.total * 10000 + 2 * h - w
    BY <1>1, <1>4, <2>1, <2>2, <2>4 DEF Money!InvoiceOf
  <2> QED BY <1>2, <1>4, <2>2, <2>3, <2>5, <2>6
<1> QED BY <1>3, <1>4

LEMMA AmountsInit == FrontInit => AmountsInv
<1> SUFFICES ASSUME Money!AmountsInit PROVE AmountsInv
  BY DEF FrontInit
<1>1. FormOK
  BY DEF Money!AmountsInit, FormOK
<1> QED BY <1>1 DEF Money!AmountsInit, AmountsInv

\* Nobody types while a payment is asked for, or once there is one.
LEMMA FormTyped ==
  ASSUME AmountsInv, Money!typed
  PROVE  AmountsInv'
<1>1. payment = Money!Nothing /\ creating = Money!Nothing
  BY DEF Money!typed, Money!Open
<1>2. UNCHANGED <<creating, onScreen, payment, letter, billed>>
  BY DEF Money!typed
<1>3. Money!NaN \in Nat /\ \A x \in Amounts \cup Rates : x \in Nat
  BY AmountsAssumption DEF Money!NaN
<1>4. FormOK'
  <2> USE DEF FormOK, AmountsInv
  <2>1. CASE amounts' = [amounts EXCEPT !.includeGst = ~amounts.includeGst]
    BY <2>1
  <2>2. CASE \E mode \in {"CGST_SGST", "IGST"} : amounts' = [amounts EXCEPT !.taxMode = mode]
    BY <2>2
  <2>3. CASE \E a \in Amounts : amounts' = [amounts EXCEPT !.taxable = a]
    BY <1>3, <2>3
  <2>4. CASE \E a \in Amounts : amounts' = [amounts EXCEPT !.amount = a]
    BY <1>3, <2>4
  <2>5. CASE \E r \in Rates \cup {Money!NaN} : amounts' = [amounts EXCEPT !.cgst = r]
    BY <1>3, <2>5
  <2>6. CASE \E r \in Rates \cup {Money!NaN} : amounts' = [amounts EXCEPT !.sgst = r]
    BY <1>3, <2>6
  <2>7. CASE \E r \in Rates \cup {Money!NaN} : amounts' = [amounts EXCEPT !.igst = r]
    BY <1>3, <2>7
  <2> QED BY <2>1, <2>2, <2>3, <2>4, <2>5, <2>6, <2>7 DEF Money!typed
<1> QED BY <1>1, <1>2, <1>4 DEF AmountsInv

LEMMA AmountsKept ==
  ASSUME AmountsInv, [Money!AmountsNext]_amountsVars
  PROVE  AmountsInv'
<1>1. CASE Money!typed
  BY <1>1, FormTyped
<1>2. UNCHANGED <<payment, inKarnataka>> => Money!InvoiceOf(payment)' = Money!InvoiceOf(payment)
  BY DEF Money!InvoiceOf
<1>3. ASSUME UNCHANGED amounts
      PROVE  /\ Money!preview' = Money!preview /\ Money!requested' = Money!requested
             /\ Money!canGenerate' = Money!canGenerate /\ FormOK' = FormOK
  BY <1>3 DEF Money!preview, Money!requested, Money!canGenerate, FormOK
<1>a. CASE UNCHANGED amountsVars
  BY <1>2, <1>3, <1>a DEF amountsVars, AmountsInv
<1>4. CASE Money!handleGenerate
  <2>1. /\ UNCHANGED <<amounts, payment, letter, billed>> /\ payment = Money!Nothing
        /\ Money!canGenerate /\ creating' = Money!requested /\ onScreen' = Money!preview
    BY <1>4 DEF Money!handleGenerate, Money!Open
  <2> QED BY <1>3, <2>1 DEF AmountsInv
<1>5. CASE Money!paymentCreated
  <2>1. creating # Money!Nothing /\ creating' = Money!Nothing /\ UNCHANGED <<amounts, billed>>
    BY <1>5 DEF Money!paymentCreated
  <2>2. /\ payment = Money!Nothing /\ billed = Money!Nothing
        /\ Money!canGenerate /\ creating = Money!requested /\ onScreen = Money!preview
    BY <2>1 DEF AmountsInv
  <2>3. CASE UNCHANGED payment
    BY <1>3, <2>1, <2>2, <2>3 DEF AmountsInv
  <2>4. CASE /\ Money!createPaymentSchema(creating) /\ payment' = Money!Taxed(creating)
             /\ letter' = Money!buildEmailBreakdown(payment', payment') /\ UNCHANGED onScreen
    BY <1>3, <2>1, <2>2, <2>4, SameLetter DEF AmountsInv
  <2> QED BY <1>5, <2>3, <2>4 DEF Money!paymentCreated, Money!computePaymentTotals
<1>6. CASE Money!resendPaymentLink
  <2>1. /\ payment # Money!Nothing /\ UNCHANGED <<amounts, creating, onScreen, payment, billed>>
        /\ UNCHANGED inKarnataka
        /\ letter' = IF Money!Taxed(Money!Stored(payment)) = Money!Nothing THEN Money!Nothing
                     ELSE Money!buildEmailBreakdown(Money!Taxed(Money!Stored(payment)), payment)
    BY <1>6 DEF Money!resendPaymentLink, Money!computePaymentTotals
  <2>2. Money!Taxed(Money!Stored(payment)) = payment
    BY <2>1, PaymentLinked DEF AmountsInv
  <2>3. letter' = Money!formatPaymentAmountForEmail(payment)
    BY <2>1, <2>2, SameLetter
  <2> QED BY <1>2, <1>3, <2>1, <2>3 DEF AmountsInv
<1>7. CASE Money!generateInvoiceForPayment
  <2>1. /\ payment # Money!Nothing /\ UNCHANGED <<amounts, creating, onScreen, payment, letter>>
        /\ billed' = Money!InvoiceOf(payment) /\ UNCHANGED inKarnataka
    BY <1>7 DEF Money!generateInvoiceForPayment
  <2> QED BY <1>2, <1>3, <2>1 DEF AmountsInv
<1> QED BY <1>1, <1>a, <1>4, <1>5, <1>6, <1>7 DEF Money!AmountsNext

\* The link to a payment is for what the admin saw beside the button, to the paisa or within
\* one for each tax; its mails add up to it; and its invoice adds up, and is for what was paid
\* if the link had its taxes on it: payment-gst.util.ts, paymentGst.ts, invoices.service.ts.
THEOREM Charged_as_shown == FrontSpec => []ChargedAsShown
<1>1. AmountsInv /\ [FrontNext]_frontVars => AmountsInv'
  <2> SUFFICES ASSUME AmountsInv, [FrontNext]_frontVars PROVE AmountsInv'
    OBVIOUS
  <2>1. Money!AmountsNext \/ UNCHANGED amountsVars
    BY PageSteps
  <2> QED BY <2>1, AmountsKept
<1>2. AmountsInv => ChargedAsShown
  <2> SUFFICES ASSUME AmountsInv PROVE Money!ChargedAsShown /\ Money!InvoicedAsPaid
    BY DEF ChargedAsShown
  <2>1. payment # Money!Nothing => Linked(payment, onScreen, BaseOf(payment))
    BY PaymentLinked DEF AmountsInv
  <2>2. payment # Money!Nothing => AddUp(payment)
    BY <2>1 DEF Linked
  <2>3. Money!ChargedAsShown
    <3> SUFFICES ASSUME payment # Money!Nothing
                 PROVE  Money!ChargedAsShown
      BY DEF Money!ChargedAsShown
    <3>1. letter # Money!Nothing /\ letter.total = payment.total
          /\ (letter.parts # <<>> =>
                letter.parts[1] + letter.parts[2] + letter.parts[3] = letter.total)
      BY <2>2, LetterAddsUp DEF AmountsInv
    <3> QED BY <2>1, <3>1 DEF Linked, BaseOf, Money!ChargedAsShown
  <2>4. Money!InvoicedAsPaid
    BY <2>2, InvoiceAddsUp DEF AmountsInv, Money!InvoicedAsPaid
  <2> QED BY <2>3, <2>4
<1> QED BY <1>1, <1>2, AmountsInit, PTL DEF FrontSpec

-----------------------------------------------------------------------------
(***************************************************************************)
(* The progress of a company's onboarding: the steps.                      *)
(***************************************************************************)
\* A stage that is in one step has that step's number.
LEMMA OnlyStep ==
  ASSUME NEW steps, NEW s, s # "REJECTED", NEW i \in DOMAIN steps, s \in steps[i],
         \A j \in DOMAIN steps : s \in steps[j] => j = i
  PROVE  Dashboard!IndexIn(steps, s) = i
<1> DEFINE found == {j \in DOMAIN steps : s \in steps[j]}
<1>1. found = {i}
  OBVIOUS
<1>2. (CHOOSE j \in found : TRUE) = i
  BY <1>1
<1> HIDE DEF found
<1>3. Dashboard!IndexIn(steps, s) = CHOOSE j \in found : TRUE
  BY <1>1 DEF Dashboard!IndexIn, found
<1> QED BY <1>2, <1>3

\* A stage that is in none belongs to the first, unless it is a rejection.
LEMMA NoStep ==
  ASSUME NEW steps, NEW s, \A j \in DOMAIN steps : s \notin steps[j]
  PROVE  Dashboard!IndexIn(steps, s) = IF s = "REJECTED" THEN 0 ELSE 1
BY DEF Dashboard!IndexIn

Older == {"PENDING_DOCUMENTS", "DOCUMENTS_SUBMITTED", "UNDER_REVIEW"}
Done  == {"ACTIVE", "COMPLETED"}

\* The steps of a client of an aggregator.
AreClientSteps(steps) ==
  /\ Len(steps) = 6 /\ DOMAIN steps = 1..6
  /\ steps[1] = {"ADMIN_CREATED"} /\ steps[2] = {"KYC_IN_PROGRESS", "KYC_REVIEW"}
  /\ steps[3] = {"AGREEMENT_DRAFT_SHARED"} /\ steps[4] = {"SIGNED_AGREEMENT_RECEIVED"}
  /\ steps[5] = {"FINAL_AGREEMENT_SHARED"} /\ steps[6] = Done

LEMMA ClientStepsAre ==
  ASSUME NEW channel, channel # "DIRECT", NEW view, view # "aggregator"
  PROVE  AreClientSteps(Dashboard!getOnboardingSteps(channel, view))
<1>0. PICK steps : steps = Dashboard!getOnboardingSteps(channel, view)
  OBVIOUS
<1> DEFINE all == Dashboard!ONBOARDING_STEPS
           T == SUBSET UNION {all[i] : i \in 1..7}
           t == SubSeq(all, 3, 7)
<1>1. /\ Len(all) = 7 /\ DOMAIN all = 1..7 /\ all = [i \in 1..7 |-> all[i]]
      /\ all[1] = {"ADMIN_CREATED"} /\ all[3] = {"KYC_IN_PROGRESS", "KYC_REVIEW"}
      /\ all[4] = {"AGREEMENT_DRAFT_SHARED"} /\ all[5] = {"SIGNED_AGREEMENT_RECEIVED"}
      /\ all[6] = {"FINAL_AGREEMENT_SHARED"} /\ all[7] = Done
  BY DEF Dashboard!ONBOARDING_STEPS, Done
<1> HIDE DEF all
<1>2. \A i \in 1..7 : all[i] \in T
  OBVIOUS
<1> HIDE DEF T
<1>3. all \in Seq(T)
  <2>1. [i \in 1..7 |-> all[i]] \in Seq(T)
    BY <1>2, IsASeq
  <2> QED BY <1>1, <2>1
<1>4. t \in Seq(T) /\ Len(t) = 5 /\ \A i \in 1..5 : t[i] = all[i + 2]
  BY <1>1, <1>3, SubSeqProperties
<1> DEFINE f == <<all[1]>>
<1>5. f \in Seq(T) /\ Len(f) = 1 /\ f[1] = all[1]
  BY <1>2
<1> HIDE DEF t
<1>6. steps = f \o t
  BY <1>0, <1>1 DEF Dashboard!getOnboardingSteps, all, t
<1> HIDE DEF f
<1>7. /\ f \o t \in Seq(T) /\ Len(f \o t) = 6
      /\ \A i \in 1..6 : (f \o t)[i] = IF i <= 1 THEN f[i] ELSE t[i - 1]
  <2>1. /\ f \o t \in Seq(T) /\ Len(f \o t) = Len(f) + Len(t)
        /\ \A i \in 1..Len(f) + Len(t) :
             (f \o t)[i] = IF i <= Len(f) THEN f[i] ELSE t[i - Len(f)]
    BY <1>4, <1>5, ConcatProperties
  <2> QED BY <1>4, <1>5, <2>1
<1>8. /\ steps[1] = all[1] /\ steps[2] = all[3] /\ steps[3] = all[4] /\ steps[4] = all[5]
      /\ steps[5] = all[6] /\ steps[6] = all[7]
  <2>0. \A i \in 1..6 : steps[i] = IF i <= 1 THEN f[i] ELSE t[i - 1]
    BY <1>6, <1>7
  <2>1. steps[1] = f[1] /\ \A i \in 2..6 : steps[i] = t[i - 1]
    BY <2>0
  <2>2. \A i \in 2..6 : i - 1 \in 1..5 /\ (i - 1) + 2 = i + 1
    OBVIOUS
  <2>3. \A i \in 2..6 : steps[i] = all[i + 1]
    BY <1>4, <2>1, <2>2
  <2> QED BY <1>5, <2>1, <2>3
<1>9. Len(steps) = 6 /\ DOMAIN steps = 1..6
  BY <1>6, <1>7, LenProperties
<1> QED BY <1>0, <1>1, <1>8, <1>9 DEF AreClientSteps

\* The numbers that the stages have among the steps of a direct client,
LEMMA DirectIndex ==
  LET I(s) == Dashboard!IndexIn(Dashboard!ONBOARDING_STEPS, s)
  IN /\ \A s \in Older \cup {"ADMIN_CREATED"} : I(s) = 1
     /\ \A s \in {"PAYMENT_PENDING", "PAYMENT_CONFIRMED"} : I(s) = 2
     /\ \A s \in {"KYC_IN_PROGRESS", "KYC_REVIEW"} : I(s) = 3
     /\ I("AGREEMENT_DRAFT_SHARED") = 4
     /\ I("SIGNED_AGREEMENT_RECEIVED") = 5
     /\ I("FINAL_AGREEMENT_SHARED") = 6
     /\ \A s \in Done : I(s) = 7
     /\ I("REJECTED") = 0
<1> DEFINE I(s) == Dashboard!IndexIn(Dashboard!ONBOARDING_STEPS, s)
<1>a. /\ DOMAIN Dashboard!ONBOARDING_STEPS = 1..7
      /\ Dashboard!ONBOARDING_STEPS[1] = {"ADMIN_CREATED"}
      /\ Dashboard!ONBOARDING_STEPS[2] = {"PAYMENT_PENDING", "PAYMENT_CONFIRMED"}
      /\ Dashboard!ONBOARDING_STEPS[3] = {"KYC_IN_PROGRESS", "KYC_REVIEW"}
      /\ Dashboard!ONBOARDING_STEPS[4] = {"AGREEMENT_DRAFT_SHARED"}
      /\ Dashboard!ONBOARDING_STEPS[5] = {"SIGNED_AGREEMENT_RECEIVED"}
      /\ Dashboard!ONBOARDING_STEPS[6] = {"FINAL_AGREEMENT_SHARED"}
      /\ Dashboard!ONBOARDING_STEPS[7] = Done
  BY DEF Dashboard!ONBOARDING_STEPS, Done
<1>b. \A j \in 1..7 : j = 1 \/ j = 2 \/ j = 3 \/ j = 4 \/ j = 5 \/ j = 6 \/ j = 7
  OBVIOUS
<1>1. I("ADMIN_CREATED") = 1
  BY <1>a, <1>b, OnlyStep DEF Done
<1>2. ASSUME NEW s \in {"PAYMENT_PENDING", "PAYMENT_CONFIRMED"} PROVE I(s) = 2
  BY <1>a, <1>b, OnlyStep DEF Done
<1>3. ASSUME NEW s \in {"KYC_IN_PROGRESS", "KYC_REVIEW"} PROVE I(s) = 3
  BY <1>a, <1>b, OnlyStep DEF Done
<1>4. I("AGREEMENT_DRAFT_SHARED") = 4
  BY <1>a, <1>b, OnlyStep DEF Done
<1>5. I("SIGNED_AGREEMENT_RECEIVED") = 5
  BY <1>a, <1>b, OnlyStep DEF Done
<1>6. I("FINAL_AGREEMENT_SHARED") = 6
  BY <1>a, <1>b, OnlyStep DEF Done
<1>7. ASSUME NEW s \in Done PROVE I(s) = 7
  BY <1>a, <1>b, OnlyStep DEF Done
<1>8. ASSUME NEW s \in Older \cup {"REJECTED"} PROVE I(s) = IF s = "REJECTED" THEN 0 ELSE 1
  <2>1. \A j \in 1..7 : s \notin Dashboard!ONBOARDING_STEPS[j]
    BY <1>a, <1>b DEF Older, Done
  <2> QED BY <1>a, <2>1, NoStep
<1> HIDE DEF I
<1>9. \A s \in Older \cup {"ADMIN_CREATED"} : I(s) = 1
  BY <1>1, <1>8 DEF Older
<1>10. I("REJECTED") = 0
  BY <1>8
<1> QED BY <1>2, <1>3, <1>4, <1>5, <1>6, <1>7, <1>9, <1>10 DEF I

\* those among the steps of a client of an aggregator,
LEMMA ClientIndex ==
  ASSUME NEW channel, channel # "DIRECT"
  PROVE  LET I(s) == Dashboard!getStepIndex(s, channel, "client")
         IN /\ \A s \in Older \cup {"ADMIN_CREATED", "PAYMENT_PENDING", "PAYMENT_CONFIRMED"} :
                 I(s) = 1
            /\ \A s \in {"KYC_IN_PROGRESS", "KYC_REVIEW"} : I(s) = 2
            /\ I("AGREEMENT_DRAFT_SHARED") = 3
            /\ I("SIGNED_AGREEMENT_RECEIVED") = 4
            /\ I("FINAL_AGREEMENT_SHARED") = 5
            /\ \A s \in Done : I(s) = 6
            /\ I("REJECTED") = 0
<1>0. PICK steps : steps = Dashboard!getOnboardingSteps(channel, "client")
  OBVIOUS
<1> DEFINE I(s) == Dashboard!IndexIn(steps, s)
<1>00. AreClientSteps(Dashboard!getOnboardingSteps(channel, "client"))
  BY ClientStepsAre
<1>a. /\ DOMAIN steps = 1..6
      /\ steps[1] = {"ADMIN_CREATED"} /\ steps[2] = {"KYC_IN_PROGRESS", "KYC_REVIEW"}
      /\ steps[3] = {"AGREEMENT_DRAFT_SHARED"} /\ steps[4] = {"SIGNED_AGREEMENT_RECEIVED"}
      /\ steps[5] = {"FINAL_AGREEMENT_SHARED"} /\ steps[6] = Done
  BY <1>0, <1>00 DEF AreClientSteps
<1>b. \A j \in 1..6 : j = 1 \/ j = 2 \/ j = 3 \/ j = 4 \/ j = 5 \/ j = 6
  OBVIOUS
<1>1. I("ADMIN_CREATED") = 1
  BY <1>a, <1>b, OnlyStep DEF Done
<1>2. ASSUME NEW s \in {"KYC_IN_PROGRESS", "KYC_REVIEW"} PROVE I(s) = 2
  BY <1>a, <1>b, OnlyStep DEF Done
<1>3. I("AGREEMENT_DRAFT_SHARED") = 3
  BY <1>a, <1>b, OnlyStep DEF Done
<1>4. I("SIGNED_AGREEMENT_RECEIVED") = 4
  BY <1>a, <1>b, OnlyStep DEF Done
<1>5. I("FINAL_AGREEMENT_SHARED") = 5
  BY <1>a, <1>b, OnlyStep DEF Done
<1>6. ASSUME NEW s \in Done PROVE I(s) = 6
  BY <1>a, <1>b, OnlyStep DEF Done
<1>7. ASSUME NEW s \in Older \cup {"PAYMENT_PENDING", "PAYMENT_CONFIRMED", "REJECTED"}
      PROVE  I(s) = IF s = "REJECTED" THEN 0 ELSE 1
  <2>1. \A j \in 1..6 : s \notin steps[j]
    BY <1>a, <1>b DEF Older, Done
  <2> QED BY <1>a, <2>1, NoStep
<1>8. \A s : Dashboard!getStepIndex(s, channel, "client") = I(s)
  BY <1>0 DEF Dashboard!getStepIndex
<1> HIDE DEF I
<1>9. /\ \A s \in Older \cup {"ADMIN_CREATED", "PAYMENT_PENDING", "PAYMENT_CONFIRMED"} : I(s) = 1
      /\ I("REJECTED") = 0
  BY <1>1, <1>7 DEF Older
<1> QED BY <1>2, <1>3, <1>4, <1>5, <1>6, <1>8, <1>9

\* and that the last of an aggregator's view is the one of the active ones.
LEMMA AggregatorIndex ==
  ASSUME NEW s \in Dashboard!Stage
  PROVE  LET i == Dashboard!IndexIn(Dashboard!AGGREGATOR_VIEW_ONBOARDING_STEPS, s)
         IN i \in 0..4 /\ (i = 4 <=> s \in Done)
<1> DEFINE steps == Dashboard!AGGREGATOR_VIEW_ONBOARDING_STEPS
           i == Dashboard!IndexIn(steps, s)
<1> SUFFICES i \in 0..4 /\ (i = 4 <=> s \in Done)
  OBVIOUS
<1>a. /\ DOMAIN steps = 1..4
      /\ steps[1] = {"ADMIN_CREATED", "PAYMENT_PENDING", "PAYMENT_CONFIRMED", "KYC_IN_PROGRESS"}
      /\ steps[2] = {"KYC_REVIEW"}
      /\ steps[3] = {"AGREEMENT_DRAFT_SHARED", "SIGNED_AGREEMENT_RECEIVED",
                     "FINAL_AGREEMENT_SHARED"}
      /\ steps[4] = Done
  BY DEF Dashboard!AGGREGATOR_VIEW_ONBOARDING_STEPS, Done
<1>b. \A j \in 1..4 : j = 1 \/ j = 2 \/ j = 3 \/ j = 4
  OBVIOUS
<1> HIDE DEF steps
<1>1. CASE s \in steps[1]
  <2>1. s # "REJECTED" /\ s \notin Done
    BY <1>1, <1>a DEF Done
  <2>2. i = 1
    BY <1>1, <1>a, <1>b, OnlyStep DEF Done
  <2> QED BY <2>1, <2>2
<1>2. CASE s \in steps[2]
  <2>1. s # "REJECTED" /\ s \notin Done
    BY <1>2, <1>a DEF Done
  <2>2. i = 2
    BY <1>2, <1>a, <1>b, OnlyStep DEF Done
  <2> QED BY <2>1, <2>2
<1>3. CASE s \in steps[3]
  <2>1. s # "REJECTED" /\ s \notin Done
    BY <1>3, <1>a DEF Done
  <2>2. i = 3
    BY <1>3, <1>a, <1>b, OnlyStep DEF Done
  <2> QED BY <2>1, <2>2
<1>4. CASE s \in Done
  <2> QED BY <1>4, <1>a, <1>b, OnlyStep DEF Done
<1>5. CASE s \in Older \cup {"REJECTED"}
  <2>1. \A j \in 1..4 : s \notin steps[j]
    BY <1>5, <1>a, <1>b DEF Older, Done
  <2>2. i = IF s = "REJECTED" THEN 0 ELSE 1
    BY <1>a, <2>1, NoStep
  <2>3. s \notin Done
    BY <1>5 DEF Older, Done
  <2> QED BY <2>2, <2>3
<1> QED BY <1>1, <1>2, <1>3, <1>4, <1>5, <1>a DEF Dashboard!Stage, Older, Done
\* The steps ticked off are the first ones; they are all of them, and all there is to
\* do, exactly when the last step is the current one.
FirstOnesTicked(i, n) ==
  LET done    == Dashboard!Ticked(i, n)
      percent == Dashboard!Share(IF i = 0 THEN 0 ELSE i - 1, n - 1)
  IN /\ \A j \in done : 1..j \subseteq done
     /\ done = 1..n <=> i = n
     /\ percent = 100 <=> i = n

LEMMA TickedOff ==
  ASSUME NEW n \in {4, 6, 7}, NEW i \in 0..n
  PROVE  FirstOnesTicked(i, n)
<1> DEFINE done == Dashboard!Ticked(i, n)
           percent == Dashboard!Share(IF i = 0 THEN 0 ELSE i - 1, n - 1)
<1>1. n \in Nat /\ i \in Nat
  OBVIOUS
<1>2. \A j : j \in done <=> j \in 1..n /\ (j < i \/ (j = i /\ j >= n - 1))
  BY DEF Dashboard!Ticked
<1>3. \A j \in done : 1..j \subseteq done
  <2> HIDE DEF done
  <2> SUFFICES ASSUME NEW j \in done, NEW k \in 1..j PROVE k \in done
    OBVIOUS
  <2>1. j \in 1..n /\ (j < i \/ (j = i /\ j >= n - 1))
    BY <1>2
  <2>2. k \in 1..n /\ (k < i \/ (k = i /\ k >= n - 1))
    BY <1>1, <2>1
  <2> QED BY <1>2, <2>2
<1>4. n \in done <=> i = n
  <2> HIDE DEF done
  <2>1. n \in 1..n /\ n >= n - 1 /\ ~(n < i)
    OBVIOUS
  <2> QED BY <1>2, <2>1
<1>5. done = 1..n <=> i = n
  <2>1. CASE i = n
    <3>1. \A j : j \in done <=> j \in 1..n
      <4> HIDE DEF done
      <4> SUFFICES ASSUME NEW j \in 1..n PROVE j < i \/ (j = i /\ j >= n - 1)
        BY <1>2
      <4> QED BY <2>1, <1>1
    <3> HIDE DEF done
    <3> QED BY <2>1, <3>1
  <2>2. CASE i # n
    <3>1. n \in 1..n
      OBVIOUS
    <3> HIDE DEF done
    <3> QED BY <2>2, <1>4, <3>1
  <2> QED BY <2>1, <2>2
<1>6. percent = 100 <=> i = n
  <2>1. CASE n = 4
    <3>1. i = 0 \/ i = 1 \/ i = 2 \/ i = 3 \/ i = 4
      BY <2>1
    <3> QED BY <2>1, <3>1 DEF Dashboard!Share
  <2>2. CASE n = 6
    <3>1. i = 0 \/ i = 1 \/ i = 2 \/ i = 3 \/ i = 4 \/ i = 5 \/ i = 6
      BY <2>2
    <3> QED BY <2>2, <3>1 DEF Dashboard!Share
  <2>3. CASE n = 7
    <3>1. i = 0 \/ i = 1 \/ i = 2 \/ i = 3 \/ i = 4 \/ i = 5 \/ i = 6 \/ i = 7
      BY <2>3
    <3> QED BY <2>3, <3>1 DEF Dashboard!Share
  <2> QED BY <2>1, <2>2, <2>3
<1> QED BY <1>3, <1>5, <1>6 DEF FirstOnesTicked

\* A client's list of steps has six or seven, an aggregator's four, and the last of them
\* is the one of the active companies.
LEMMA StepsAndIndex ==
  ASSUME NEW channel \in {"DIRECT", "AGGREGATOR"}, NEW s \in Dashboard!Stage,
         NEW view \in {"client", "admin", "aggregator"}
  PROVE  LET n == Len(Dashboard!getOnboardingSteps(channel, view))
             i == Dashboard!getStepIndex(s, channel, view)
         IN n \in {4, 6, 7} /\ i \in 0..n /\ (i = n <=> s \in Done)
<1> DEFINE n == Len(Dashboard!getOnboardingSteps(channel, view))
           i == Dashboard!getStepIndex(s, channel, view)
<1> SUFFICES n \in {4, 6, 7} /\ i \in 0..n /\ (i = n <=> s \in Done)
  OBVIOUS
<1>1. CASE channel = "DIRECT"
  <2>1. n = 7
    BY <1>1 DEF Dashboard!getOnboardingSteps, Dashboard!ONBOARDING_STEPS
  <2>2. i = Dashboard!IndexIn(Dashboard!ONBOARDING_STEPS, s)
    BY <1>1 DEF Dashboard!getStepIndex, Dashboard!getOnboardingSteps
  <2> HIDE DEF n, i
  <2>3. i \in 0..7 /\ (i = 7 <=> s \in Done)
    BY <2>2, DirectIndex DEF Dashboard!Stage, Older, Done
  <2> QED BY <2>1, <2>3
<1>2. CASE channel # "DIRECT" /\ view = "aggregator"
  <2>1. n = 4
    BY <1>2 DEF Dashboard!getOnboardingSteps, Dashboard!AGGREGATOR_VIEW_ONBOARDING_STEPS
  <2>2. i = Dashboard!IndexIn(Dashboard!AGGREGATOR_VIEW_ONBOARDING_STEPS, s)
    BY <1>2 DEF Dashboard!getStepIndex, Dashboard!getOnboardingSteps
  <2> HIDE DEF n, i
  <2>3. i \in 0..4 /\ (i = 4 <=> s \in Done)
    BY <2>2, AggregatorIndex
  <2> QED BY <2>1, <2>3
<1>3. CASE channel # "DIRECT" /\ view # "aggregator"
  <2>1. n = 6
    BY <1>3, ClientStepsAre DEF AreClientSteps
  <2>2. i = Dashboard!getStepIndex(s, channel, "client")
    BY <1>3 DEF Dashboard!getStepIndex, Dashboard!getOnboardingSteps
  <2> HIDE DEF n, i
  <2>3. i \in 0..6 /\ (i = 6 <=> s \in Done)
    BY <1>3, <2>2, ClientIndex DEF Dashboard!Stage, Older, Done
  <2> QED BY <2>1, <2>3
<1> QED BY <1>1, <1>2, <1>3
\* What the stepper shows a client.
Percent(channel, s) == Dashboard!Stepper(s, channel, "client").percent

LEMMA PercentIs ==
  ASSUME NEW channel \in {"DIRECT", "AGGREGATOR"}, NEW s \in Dashboard!Stage
  PROVE  \E n \in {6, 7} : \E i \in 0..n :
           /\ n = IF channel = "DIRECT" THEN 7 ELSE 6
           /\ i = Dashboard!getStepIndex(s, channel, "client")
           /\ Percent(channel, s) = Dashboard!Share(IF i = 0 THEN 0 ELSE i - 1, n - 1)
<1>1. PICK n : n = Len(Dashboard!getOnboardingSteps(channel, "client"))
  OBVIOUS
<1>2. PICK i : i = Dashboard!getStepIndex(s, channel, "client")
  OBVIOUS
<1>3. n = IF channel = "DIRECT" THEN 7 ELSE 6
  <2>1. CASE channel = "DIRECT"
    BY <1>1, <2>1 DEF Dashboard!getOnboardingSteps, Dashboard!ONBOARDING_STEPS
  <2>2. CASE channel # "DIRECT"
    <3>1. AreClientSteps(Dashboard!getOnboardingSteps(channel, "client"))
      BY <2>2, ClientStepsAre
    <3> QED BY <1>1, <2>2, <3>1 DEF AreClientSteps
  <2> QED BY <2>1, <2>2
<1>4. i \in 0..n
  BY <1>1, <1>2, StepsAndIndex
<1>5. Percent(channel, s) = Dashboard!Share(IF i = 0 THEN 0 ELSE i - 1, n - 1)
  BY <1>1, <1>2 DEF Percent, Dashboard!Stepper
<1> QED BY <1>2, <1>3, <1>4, <1>5

\* A later step is no smaller a share.
LEMMA ShareGrows ==
  ASSUME NEW n \in {6, 7}, NEW i \in 0..n, NEW j \in 0..n, i <= j
  PROVE  LET S(k) == Dashboard!Share(IF k = 0 THEN 0 ELSE k - 1, n - 1)
         IN S(i) \in Int /\ S(j) \in Int /\ S(i) <= S(j)
<1> DEFINE S(k) == Dashboard!Share(IF k = 0 THEN 0 ELSE k - 1, n - 1)
<1>1. CASE n = 6
  <2>1. /\ S(0) = 0 /\ S(1) = 0 /\ S(2) = 20 /\ S(3) = 40 /\ S(4) = 60 /\ S(5) = 80
        /\ S(6) = 100
    BY <1>1 DEF Dashboard!Share
  <2> HIDE DEF S
  <2>2. /\ i = 0 \/ i = 1 \/ i = 2 \/ i = 3 \/ i = 4 \/ i = 5 \/ i = 6
        /\ j = 0 \/ j = 1 \/ j = 2 \/ j = 3 \/ j = 4 \/ j = 5 \/ j = 6
    BY <1>1
  <2>3. S(i) \in Int /\ S(j) \in Int /\ S(i) <= S(j)
    BY <2>1, <2>2
  <2> QED BY <2>3 DEF S
<1>2. CASE n = 7
  <2>1. /\ S(0) = 0 /\ S(1) = 0 /\ S(2) = 17 /\ S(3) = 33 /\ S(4) = 50 /\ S(5) = 67
        /\ S(6) = 83 /\ S(7) = 100
    BY <1>2 DEF Dashboard!Share
  <2> HIDE DEF S
  <2>2. /\ i = 0 \/ i = 1 \/ i = 2 \/ i = 3 \/ i = 4 \/ i = 5 \/ i = 6 \/ i = 7
        /\ j = 0 \/ j = 1 \/ j = 2 \/ j = 3 \/ j = 4 \/ j = 5 \/ j = 6 \/ j = 7
    BY <1>2
  <2>3. S(i) \in Int /\ S(j) \in Int /\ S(i) <= S(j)
    BY <2>1, <2>2
  <2> QED BY <2>3 DEF S
<1> QED BY <1>1, <1>2

\* The stages that a stage may be followed by, of those that have a step.
LEMMA NextSteps ==
  ASSUME NEW s \in Dashboard!Stage, NEW t \in Dashboard!Stage,
         Dashboard!CanTransition(s, t), Dashboard!HasStep(t)
  PROVE  \/ s = "ADMIN_CREATED" /\ t \in {"PAYMENT_PENDING", "KYC_IN_PROGRESS"}
         \/ s = "PAYMENT_PENDING" /\ t = "PAYMENT_CONFIRMED"
         \/ s = "UNDER_REVIEW" /\ t \in {"COMPLETED", "PAYMENT_CONFIRMED"}
         \/ s = "PAYMENT_CONFIRMED" /\ t = "KYC_IN_PROGRESS"
         \/ s = "KYC_IN_PROGRESS" /\ t = "KYC_REVIEW"
         \/ s = "KYC_REVIEW" /\ t \in {"AGREEMENT_DRAFT_SHARED", "KYC_IN_PROGRESS"}
         \/ s = "AGREEMENT_DRAFT_SHARED" /\ t = "SIGNED_AGREEMENT_RECEIVED"
         \/ s = "SIGNED_AGREEMENT_RECEIVED" /\ t = "FINAL_AGREEMENT_SHARED"
         \/ s = "FINAL_AGREEMENT_SHARED" /\ t = "ACTIVE"
<1>1. t \notin Older \cup {"REJECTED"}
  <2> SUFFICES ASSUME t \in Older \cup {"REJECTED"} PROVE FALSE
    OBVIOUS
  <2>1. PICK k \in 1..7 : t \in Dashboard!ONBOARDING_STEPS[k]
    BY DEF Dashboard!HasStep, Dashboard!ONBOARDING_STEPS
  <2>2. k = 1 \/ k = 2 \/ k = 3 \/ k = 4 \/ k = 5 \/ k = 6 \/ k = 7
    OBVIOUS
  <2> QED BY <2>1, <2>2 DEF Dashboard!ONBOARDING_STEPS, Older
<1>2. <<s, t>> \in Dashboard!AllowedTransitions
  BY DEF Dashboard!CanTransition
<1> QED BY <1>1, <1>2 DEF Dashboard!AllowedTransitions, Older

\* No move to a stage that has a step takes away from what the stepper shows.
LEMMA PercentGrows ==
  ASSUME NEW channel \in {"DIRECT", "AGGREGATOR"}, NEW s \in Dashboard!Stage,
         NEW t \in Dashboard!Stage, Dashboard!CanTransition(s, t), Dashboard!HasStep(t)
  PROVE  Percent(channel, s) <= Percent(channel, t)
<1> DEFINE I(x) == Dashboard!getStepIndex(x, channel, "client")
<1>1. I(s) <= I(t)
  <2>1. CASE channel = "DIRECT"
    <3>1. \A x : I(x) = Dashboard!IndexIn(Dashboard!ONBOARDING_STEPS, x)
      BY <2>1 DEF Dashboard!getStepIndex, Dashboard!getOnboardingSteps
    <3> HIDE DEF I
    <3> QED BY <3>1, NextSteps, DirectIndex DEF Older, Done
  <2>2. CASE channel # "DIRECT"
    <3>1. /\ \A x \in Older \cup {"ADMIN_CREATED", "PAYMENT_PENDING", "PAYMENT_CONFIRMED"} :
               I(x) = 1
          /\ \A x \in {"KYC_IN_PROGRESS", "KYC_REVIEW"} : I(x) = 2
          /\ I("AGREEMENT_DRAFT_SHARED") = 3
          /\ I("SIGNED_AGREEMENT_RECEIVED") = 4
          /\ I("FINAL_AGREEMENT_SHARED") = 5
          /\ \A x \in Done : I(x) = 6
      BY <2>2, ClientIndex
    <3> HIDE DEF I
    <3> QED BY <3>1, NextSteps DEF Older, Done
  <2> QED BY <2>1, <2>2
<1> HIDE DEF I
<1>2. PICK n \in {6, 7} : n = IF channel = "DIRECT" THEN 7 ELSE 6
  OBVIOUS
<1>3. /\ I(s) \in 0..n /\ I(t) \in 0..n
      /\ Percent(channel, s) = Dashboard!Share(IF I(s) = 0 THEN 0 ELSE I(s) - 1, n - 1)
      /\ Percent(channel, t) = Dashboard!Share(IF I(t) = 0 THEN 0 ELSE I(t) - 1, n - 1)
  BY <1>2, PercentIs DEF I
<1> QED BY <1>1, <1>3, ShareGrows
\* What the parts of the page make of a stage.
LEMMA PartsOfThePage ==
  ASSUME NEW s \in Dashboard!Stage, NEW documents
  PROVE  LET task == Dashboard!getActionConfig(s, documents)[1]
         IN /\ task = "done" <=> s \in Done
            /\ task = "kyc" <=> s \in {"PAYMENT_CONFIRMED", "KYC_IN_PROGRESS"}
            /\ task = "sign" <=> s = "AGREEMENT_DRAFT_SHARED"
<1> DEFINE config == Dashboard!getActionConfig(s, documents)
<1>1. CASE s \in Done
  <2>1. config = <<"done", "documents">>
    BY <1>1 DEF Dashboard!getActionConfig, Done
  <2> QED BY <1>1, <2>1 DEF Done
<1>2. CASE s \in {"PAYMENT_CONFIRMED", "KYC_IN_PROGRESS"}
  <2>1. config = <<"kyc", "documents">>
    BY <1>2 DEF Dashboard!getActionConfig
  <2> QED BY <1>2, <2>1 DEF Done
<1>3. CASE s = "AGREEMENT_DRAFT_SHARED"
  <2>1. config = <<"sign", IF "draft" \in documents THEN "draft" ELSE "documents">>
    BY <1>3 DEF Dashboard!getActionConfig
  <2> QED BY <1>3, <2>1 DEF Done
<1>4. CASE s = "PAYMENT_PENDING"
  <2>1. config = <<"payment", "soon">>
    BY <1>4 DEF Dashboard!getActionConfig
  <2> QED BY <1>4, <2>1 DEF Done
<1>5. CASE s = "FINAL_AGREEMENT_SHARED"
  <2>1. config = <<"admin", IF "final" \in documents THEN "final" ELSE "documents">>
    BY <1>5 DEF Dashboard!getActionConfig
  <2> QED BY <1>5, <2>1 DEF Done
<1>6. CASE s \in {"KYC_REVIEW", "SIGNED_AGREEMENT_RECEIVED"}
  <2>1. config = <<"admin", "none">>
    BY <1>6 DEF Dashboard!getActionConfig
  <2> QED BY <1>6, <2>1 DEF Done
<1>7. CASE s \in Older \cup {"ADMIN_CREATED", "REJECTED"}
  <2>1. config = <<"other", "none">>
    BY <1>7 DEF Dashboard!getActionConfig, Older
  <2> QED BY <1>7, <2>1 DEF Done, Older
<1> QED BY <1>1, <1>2, <1>3, <1>4, <1>5, <1>6, <1>7 DEF Dashboard!Stage, Older, Done

LEMMA HintIs ==
  ASSUME NEW s \in Dashboard!Stage, NEW view
  PROVE  LET hint == Dashboard!getActionHint(s, view)
         IN /\ hint = "done" <=> s \in Done
            /\ view = "client" =>
                 /\ hint = "kyc" <=> s \in {"PAYMENT_CONFIRMED", "KYC_IN_PROGRESS"}
                 /\ hint = "sign" <=> s = "AGREEMENT_DRAFT_SHARED"
BY DEF Dashboard!getActionHint, Dashboard!Stage, Done

\* The index of a stage among the steps of a direct client.
LEMMA DirectIndexIs ==
  ASSUME NEW s \in Dashboard!Stage
  PROVE  LET i == Dashboard!getStepIndex(s, "DIRECT", "client")
         IN /\ i = Dashboard!IndexIn(Dashboard!ONBOARDING_STEPS, s)
            /\ i \in 0..7
            /\ i = 7 <=> s \in Done
            /\ i = 0 <=> s = "REJECTED"
            /\ i = 4 <=> s = "AGREEMENT_DRAFT_SHARED"
            /\ s \in {"PAYMENT_CONFIRMED", "KYC_IN_PROGRESS", "KYC_REVIEW"} => i < 4
<1> DEFINE i == Dashboard!getStepIndex(s, "DIRECT", "client")
<1>1. i = Dashboard!IndexIn(Dashboard!ONBOARDING_STEPS, s)
  BY DEF Dashboard!getStepIndex, Dashboard!getOnboardingSteps
<1> HIDE DEF i
<1>2. /\ i \in 0..7 /\ (i = 7 <=> s \in Done) /\ (i = 0 <=> s = "REJECTED")
      /\ (i = 4 <=> s = "AGREEMENT_DRAFT_SHARED")
      /\ (s \in {"PAYMENT_CONFIRMED", "KYC_IN_PROGRESS", "KYC_REVIEW"} => i < 4)
  BY <1>1, DirectIndex DEF Dashboard!Stage, Older, Done
<1> QED BY <1>1, <1>2 DEF i

LEMMA SummaryIs ==
  ASSUME NEW s \in Dashboard!Stage
  PROVE  LET cards == Dashboard!SummaryCards(s)
         IN /\ cards.activation = "active" <=> s \in Done
            /\ cards.kyc = "pending" <=> s \in {"PAYMENT_CONFIRMED", "KYC_IN_PROGRESS"}
            /\ cards.agreement = "draft_shared" <=> s = "AGREEMENT_DRAFT_SHARED"
            /\ Dashboard!getStepIndex(s, "DIRECT", "client") >= 3 => cards.payment = "completed"
<1>1. PICK i : i = Dashboard!getStepIndex(s, "DIRECT", "client")
  OBVIOUS
<1>2. /\ i \in 0..7 /\ (i = 7 <=> s \in Done) /\ (i = 4 <=> s = "AGREEMENT_DRAFT_SHARED")
      /\ (s \in {"PAYMENT_CONFIRMED", "KYC_IN_PROGRESS", "KYC_REVIEW"} => i < 4)
  BY <1>1, DirectIndexIs
<1> DEFINE cards == Dashboard!SummaryCards(s)
<1>3. cards.activation = IF i = 7 THEN "active" ELSE "pending"
  BY <1>1 DEF Dashboard!SummaryCards
<1>4. cards.agreement = CASE i = 4 -> "draft_shared" [] i = 5 -> "signed"
                        [] i >= 6 -> "final" [] OTHER -> "none"
  BY <1>1 DEF Dashboard!SummaryCards
<1>5. cards.kyc = CASE s \in {"PAYMENT_CONFIRMED", "KYC_IN_PROGRESS"} -> "pending"
                  [] s = "KYC_REVIEW" -> "under_review"
                  [] i >= 4 -> "approved"
                  [] OTHER -> "none"
  BY <1>1 DEF Dashboard!SummaryCards
<1>6. cards.payment = IF i >= 3 \/ s = "PAYMENT_CONFIRMED" THEN "completed" ELSE "pending"
  BY <1>1 DEF Dashboard!SummaryCards
<1> HIDE DEF cards
<1>7. cards.activation = "active" <=> s \in Done
  BY <1>2, <1>3
<1>8. cards.agreement = "draft_shared" <=> s = "AGREEMENT_DRAFT_SHARED"
  BY <1>2, <1>4
<1>9. cards.kyc = "pending" <=> s \in {"PAYMENT_CONFIRMED", "KYC_IN_PROGRESS"}
  BY <1>2, <1>5
<1>10. i >= 3 => cards.payment = "completed"
  BY <1>6
<1> QED BY <1>1, <1>7, <1>8, <1>9, <1>10 DEF cards

\* The timeline is a direct client's stepper, but in a company that is rejected.
LEMMA TimelineIs ==
  ASSUME NEW s \in Dashboard!Stage
  PROVE  LET timeline == Dashboard!TimelineView(s)
             stepper  == Dashboard!Stepper(s, "DIRECT", "client")
         IN /\ 7 \in timeline.done <=> s \in Done
            /\ s # "REJECTED" =>
                 timeline = [done |-> stepper.done, current |-> stepper.current]
<1>1. PICK i : i = Dashboard!getStepIndex(s, "DIRECT", "client")
  OBVIOUS
<1>2. i \in 0..7 /\ (i = 7 <=> s \in Done) /\ (i = 0 <=> s = "REJECTED")
  BY <1>1, DirectIndexIs
<1>3. PICK from : from = IF i = 0 THEN 1 ELSE i
  OBVIOUS
<1>4. Len(Dashboard!ONBOARDING_STEPS) = 7
  BY DEF Dashboard!ONBOARDING_STEPS
<1>5. Dashboard!TimelineView(s) = [done    |-> Dashboard!Ticked(from, 7),
                                   current |-> {from} \ Dashboard!Ticked(from, 7)]
  BY <1>1, <1>3, <1>4 DEF Dashboard!TimelineView
<1>6. /\ Dashboard!Stepper(s, "DIRECT", "client").done = Dashboard!Ticked(i, 7)
      /\ Dashboard!Stepper(s, "DIRECT", "client").current
           = {i} \ ({0} \cup Dashboard!Ticked(i, 7))
  BY <1>1, <1>4 DEF Dashboard!Stepper, Dashboard!getOnboardingSteps
<1>7. 7 \in Dashboard!Ticked(from, 7) <=> from = 7
  BY <1>2, <1>3 DEF Dashboard!Ticked
<1>8. s # "REJECTED" =>
        from = i /\ {i} \ Dashboard!Ticked(i, 7) = {i} \ ({0} \cup Dashboard!Ticked(i, 7))
  <2>1. s # "REJECTED" => from = i /\ i # 0
    BY <1>2, <1>3
  <2> DEFINE d == Dashboard!Ticked(i, 7)
  <2> HIDE DEF d
  <2>2. i # 0 => {i} \ d = {i} \ ({0} \cup d)
    OBVIOUS
  <2> QED BY <2>1, <2>2 DEF d
<1>9. 7 \in Dashboard!TimelineView(s).done <=> s \in Done
  BY <1>2, <1>3, <1>5, <1>7
<1> QED BY <1>5, <1>6, <1>8, <1>9
-----------------------------------------------------------------------------
(***************************************************************************)
(* The progress of a company's onboarding: the dashboard.                  *)
(***************************************************************************)
DashTypes ==
  /\ client \in [channel : {"DIRECT", "AGGREGATOR"}, stage : Dashboard!Stage]
  /\ awaited \subseteq {"company", "documents"}
  /\ dashboard = [view |-> dashboard.view, stage |-> dashboard.stage,
                  documents |-> dashboard.documents]
  /\ dashboard.stage \in Dashboard!Stage \cup {"none"}
  /\ before \in Dashboard!Stage \cup {"none"}
  /\ stale \in BOOLEAN /\ lapsed \in BOOLEAN

\* What has come is of the company as it is, unless that changed since.
Loaded ==
  /\ dashboard.view \in {"shown", "error"} => awaited = {}
  /\ dashboard.view # "error" =>
       /\ "company" \notin awaited =>
            dashboard.stage # "none" /\ (~stale => dashboard.stage = client.stage)
       /\ "documents" \notin awaited /\ ~stale =>
            dashboard.documents = Dashboard!findMyDocuments

\* Neither of the visits showed more than the company has reached.
Climbs ==
  ~lapsed =>
    /\ dashboard.stage # "none" =>
         Percent(client.channel, dashboard.stage) <= Percent(client.channel, client.stage)
    /\ before # "none" =>
         Percent(client.channel, before) <= Percent(client.channel, client.stage)
    /\ before # "none" /\ dashboard.stage # "none" =>
         Percent(client.channel, before) <= Percent(client.channel, dashboard.stage)

DashInv == DashTypes /\ Loaded /\ Climbs
LEMMA PercentInt ==
  ASSUME NEW channel \in {"DIRECT", "AGGREGATOR"}, NEW s \in Dashboard!Stage
  PROVE  Percent(channel, s) \in Int
<1>1. PICK n \in {6, 7} : \E i \in 0..n :
        Percent(channel, s) = Dashboard!Share(IF i = 0 THEN 0 ELSE i - 1, n - 1)
  BY PercentIs
<1>2. PICK i \in 0..n :
        Percent(channel, s) = Dashboard!Share(IF i = 0 THEN 0 ELSE i - 1, n - 1)
  BY <1>1
<1>3. i <= i
  OBVIOUS
<1> QED BY <1>2, <1>3, ShareGrows

LEMMA NewDashboard ==
  ASSUME NEW r, r = [view |-> r.view, stage |-> r.stage, documents |-> r.documents],
         NEW v, NEW s, NEW d
  PROVE  [r EXCEPT !.view = v, !.stage = s, !.documents = d]
           = [view |-> v, stage |-> s, documents |-> d]
<1> DEFINE a == [r EXCEPT !.view = v]
           b == [a EXCEPT !.stage = s]
           c == [b EXCEPT !.documents = d]
<1>1. a = [view |-> v, stage |-> r.stage, documents |-> r.documents]
  OBVIOUS
<1> HIDE DEF a
<1>2. b = [view |-> v, stage |-> s, documents |-> r.documents]
  BY <1>1
<1> HIDE DEF b
<1>3. c = [view |-> v, stage |-> s, documents |-> d]
  BY <1>2
<1>4. [r EXCEPT !.view = v, !.stage = s, !.documents = d] = c
  BY DEF a, b
<1> QED BY <1>3, <1>4

\* One answer has come.
LEMMA OneAnswered ==
  ASSUME DashInv, NEW what, Dashboard!Answered(what), what \in {"company", "documents"}
  PROVE  DashInv'
<1>1. /\ what \in awaited /\ awaited' = awaited \ {what}
      /\ dashboard' = [view      |-> IF awaited' = {} THEN "shown" ELSE dashboard.view,
                       stage     |-> IF what = "company" THEN client.stage ELSE dashboard.stage,
                       documents |-> IF what = "documents" THEN Dashboard!findMyDocuments
                                     ELSE dashboard.documents]
  BY NewDashboard DEF Dashboard!Answered, DashInv, DashTypes
<1>2. UNCHANGED <<client, filed, stale, before, lapsed>>
  BY DEF Dashboard!Answered
<1>3. /\ dashboard'.view = IF awaited' = {} THEN "shown" ELSE dashboard.view
      /\ dashboard'.stage = IF what = "company" THEN client.stage ELSE dashboard.stage
      /\ dashboard'.documents = IF what = "documents" THEN Dashboard!findMyDocuments
                                ELSE dashboard.documents
      /\ dashboard' = [view |-> dashboard'.view, stage |-> dashboard'.stage,
                       documents |-> dashboard'.documents]
  BY <1>1
<1>4. /\ client \in [channel : {"DIRECT", "AGGREGATOR"}, stage : Dashboard!Stage]
      /\ client.channel \in {"DIRECT", "AGGREGATOR"} /\ client.stage \in Dashboard!Stage
      /\ "none" \notin Dashboard!Stage
  BY DEF DashInv, DashTypes, Dashboard!Stage
<1>5. DashTypes'
  BY <1>1, <1>2, <1>3, <1>4 DEF DashInv, DashTypes
<1>6. Loaded'
  <2>1. Dashboard!findMyDocuments' = Dashboard!findMyDocuments
    BY <1>2 DEF Dashboard!findMyDocuments
  <2>2. dashboard.view # "shown" /\ dashboard.view # "error"
    BY <1>1 DEF DashInv, Loaded
  <2> QED BY <1>1, <1>2, <1>3, <1>4, <2>1, <2>2 DEF DashInv, Loaded
<1>7. Climbs'
  <2>1. Percent(client.channel, client.stage) <= Percent(client.channel, client.stage)
    BY <1>4, PercentInt
  <2> QED BY <1>2, <1>3, <2>1 DEF DashInv, Climbs
<1> QED BY <1>5, <1>6, <1>7 DEF DashInv

\* The page is opened anew, or has nothing to show.
LEMMA NothingLoaded ==
  ASSUME DashInv, awaited' \in {{}, {"company", "documents"}},
         dashboard' = [view |-> IF awaited' = {} THEN "error" ELSE "loading",
                       stage |-> "none", documents |-> {}],
         stale' \in BOOLEAN, UNCHANGED <<client, lapsed>>,
         before' = before \/ (dashboard.view = "shown" /\ before' = dashboard.stage)
  PROVE  DashInv'
<1>1. /\ dashboard'.view = IF awaited' = {} THEN "error" ELSE "loading"
      /\ dashboard'.stage = "none"
      /\ dashboard' = [view |-> dashboard'.view, stage |-> dashboard'.stage,
                       documents |-> dashboard'.documents]
  OBVIOUS
<1>2. DashTypes'
  BY <1>1 DEF DashInv, DashTypes
<1>3. Loaded'
  BY <1>1 DEF Loaded
<1>4. Climbs'
  BY <1>1 DEF DashInv, Climbs
<1> QED BY <1>2, <1>3, <1>4 DEF DashInv

\* The company has one document more at the server.
LEMMA CompanyFiled ==
  ASSUME DashInv, UNCHANGED <<awaited, dashboard, before, client, lapsed>>, stale' \in BOOLEAN,
         ~stale' => ~stale /\ awaited = {"company", "documents"}
  PROVE  DashInv'
<1>1. Loaded'
  BY DEF DashInv, Loaded
<1>2. DashTypes'
  BY DEF DashInv, DashTypes
<1>3. Climbs'
  BY DEF DashInv, Climbs
<1> QED BY <1>1, <1>2, <1>3 DEF DashInv

\* It has moved on.
LEMMA CompanyMoved ==
  ASSUME DashInv, UNCHANGED <<awaited, dashboard, before>>, stale' \in BOOLEAN,
         ~stale' => ~stale /\ awaited = {"company", "documents"},
         NEW s \in Dashboard!Stage, Dashboard!CanTransition(client.stage, s),
         client' = [channel |-> client.channel, stage |-> s],
         lapsed' = (lapsed \/ ~Dashboard!HasStep(s))
  PROVE  DashInv'
<1>0. Loaded'
  BY DEF DashInv, Loaded
<1>1. /\ client' \in [channel : {"DIRECT", "AGGREGATOR"}, stage : Dashboard!Stage]
      /\ client'.stage = s /\ client'.channel = client.channel
      /\ client.channel \in {"DIRECT", "AGGREGATOR"} /\ client.stage \in Dashboard!Stage
  BY DEF DashInv, DashTypes
<1>2. lapsed' \in BOOLEAN /\ (~lapsed' => ~lapsed /\ Dashboard!HasStep(s))
  BY DEF DashInv, DashTypes
<1>3. DashTypes'
  BY <1>1, <1>2 DEF DashInv, DashTypes
<1>4. CASE lapsed'
  BY <1>0, <1>3, <1>4 DEF DashInv, Climbs
<1>5. CASE ~lapsed'
  <2>1. Percent(client.channel, client.stage) <= Percent(client.channel, s)
    BY <1>1, <1>2, <1>5, PercentGrows
  <2>2. /\ Percent(client.channel, client.stage) \in Int /\ Percent(client.channel, s) \in Int
        /\ before # "none" => Percent(client.channel, before) \in Int
        /\ dashboard.stage # "none" => Percent(client.channel, dashboard.stage) \in Int
    BY <1>1, PercentInt DEF DashInv, DashTypes
  <2>3. /\ before # "none" => Percent(client.channel, before) <= Percent(client.channel, s)
        /\ dashboard.stage # "none" =>
             Percent(client.channel, dashboard.stage) <= Percent(client.channel, s)
        /\ before # "none" /\ dashboard.stage # "none" =>
             Percent(client.channel, before) <= Percent(client.channel, dashboard.stage)
    BY <1>2, <1>5, <2>1, <2>2 DEF DashInv, Climbs
  <2>4. Climbs'
    BY <1>1, <2>3 DEF Climbs
  <2> QED BY <1>0, <1>3, <2>4 DEF DashInv
<1> QED BY <1>2, <1>4, <1>5

LEMMA DashKept ==
  ASSUME DashInv,
         Dashboard!DashboardNext
           \/ UNCHANGED <<client, filed, awaited, dashboard, stale, before, lapsed, moves, visits>>
  PROVE  DashInv'
<1>1. CASE Dashboard!companyAnswered \/ Dashboard!documentsAnswered
  BY <1>1, OneAnswered DEF Dashboard!companyAnswered, Dashboard!documentsAnswered
<1>2. CASE Dashboard!loadFailed
  <2>1. /\ awaited' = {} /\ UNCHANGED <<client, lapsed, stale, before>>
        /\ dashboard' = [Dashboard!Blank EXCEPT !.view = "error"]
    BY <1>2 DEF Dashboard!loadFailed
  <2>2. dashboard' = [view |-> "error", stage |-> "none", documents |-> {}]
    BY <2>1 DEF Dashboard!Blank
  <2>3. stale' \in BOOLEAN
    BY <2>1 DEF DashInv, DashTypes
  <2> QED BY <2>1, <2>2, <2>3, NothingLoaded
<1>3. CASE Dashboard!visitAgain
  <2>1. /\ awaited' = {"company", "documents"} /\ dashboard' = Dashboard!Blank /\ stale' = FALSE
        /\ before' = (IF dashboard.view = "shown" THEN dashboard.stage ELSE before)
        /\ UNCHANGED <<client, lapsed>>
    BY <1>3 DEF Dashboard!visitAgain, Dashboard!Both
  <2>2. dashboard' = [view |-> "loading", stage |-> "none", documents |-> {}]
    BY <2>1 DEF Dashboard!Blank
  <2>3. before' = before \/ (dashboard.view = "shown" /\ before' = dashboard.stage)
    BY <2>1
  <2> QED BY <2>1, <2>2, <2>3, NothingLoaded
<1>4. CASE Dashboard!stageMoves \/ Dashboard!documentFiled
  <2>1. /\ stale' = (stale \/ awaited # {"company", "documents"})
        /\ UNCHANGED <<awaited, dashboard, before>>
    BY <1>4 DEF Dashboard!stageMoves, Dashboard!documentFiled, Dashboard!ServerChanges,
                Dashboard!Both
  <2>2. stale' \in BOOLEAN /\ (~stale' => ~stale /\ awaited = {"company", "documents"})
    BY <2>1 DEF DashInv, DashTypes
  <2>3. CASE Dashboard!documentFiled
    <3>1. UNCHANGED <<client, lapsed>>
      BY <2>3 DEF Dashboard!documentFiled
    <3> QED BY <2>1, <2>2, <3>1, CompanyFiled
  <2>4. CASE Dashboard!stageMoves
    <3>1. PICK s \in Dashboard!Stage :
            /\ Dashboard!CanTransition(client.stage, s)
            /\ client' = [channel |-> client.channel, stage |-> s]
            /\ lapsed' = (lapsed \/ ~Dashboard!HasStep(s))
      BY <2>4 DEF Dashboard!stageMoves, DashInv, DashTypes
    <3> QED BY <2>1, <2>2, <3>1, CompanyMoved
  <2> QED BY <1>4, <2>3, <2>4
<1>5. CASE UNCHANGED <<client, filed, awaited, dashboard, stale, before, lapsed, moves, visits>>
  <2>1. Dashboard!findMyDocuments' = Dashboard!findMyDocuments
    BY <1>5 DEF Dashboard!findMyDocuments
  <2> QED BY <1>5, <2>1 DEF DashInv, DashTypes, Loaded, Climbs
<1> QED BY <1>1, <1>2, <1>3, <1>4, <1>5 DEF Dashboard!DashboardNext

\* What the invariant gives of a page that shows its company.
LEMMA ShownIs ==
  ASSUME DashInv, Dashboard!Shown
  PROVE  /\ client.channel \in {"DIRECT", "AGGREGATOR"} /\ client.stage \in Dashboard!Stage
         /\ dashboard.stage \in Dashboard!Stage
         /\ ~stale => dashboard.stage = client.stage
                      /\ dashboard.documents = Dashboard!findMyDocuments
<1>1. dashboard.view = "shown" /\ dashboard.view # "error" /\ awaited = {}
  BY DEF Dashboard!Shown, DashInv, Loaded
<1>2. dashboard.stage # "none" /\ (~stale => dashboard.stage = client.stage
        /\ dashboard.documents = Dashboard!findMyDocuments)
  BY <1>1 DEF DashInv, Loaded
<1> QED BY <1>2 DEF DashInv, DashTypes

LEMMA ShownComplete ==
  ASSUME DashInv
  PROVE  Dashboard!CompleteWhenActive
<1> SUFFICES ASSUME Dashboard!Shown, NEW view \in {"client", "admin", "aggregator"}
             PROVE
    LET active  == dashboard.stage \in {"ACTIVE", "COMPLETED"}
        stepper == Dashboard!Stepper(dashboard.stage, client.channel, view)
        n       == Len(Dashboard!getOnboardingSteps(client.channel, view))
    IN /\ \A i \in stepper.done : 1..i \subseteq stepper.done
       /\ active <=> stepper.done = 1..n
       /\ active <=> stepper.percent = 100
       /\ active <=> Dashboard!Asked = "done"
       /\ active <=> Len(Dashboard!ONBOARDING_STEPS)
                       \in Dashboard!TimelineView(dashboard.stage).done
       /\ active <=> Dashboard!SummaryCards(dashboard.stage).activation = "active"
       /\ active <=> Dashboard!getActionHint(dashboard.stage, view) = "done"
  BY DEF Dashboard!CompleteWhenActive
<1>1. PICK st : st = dashboard.stage
  OBVIOUS
<1>2. PICK ch : ch = client.channel
  OBVIOUS
<1>3. st \in Dashboard!Stage /\ ch \in {"DIRECT", "AGGREGATOR"}
  BY <1>1, <1>2, ShownIs
<1>4. PICK n : n = Len(Dashboard!getOnboardingSteps(ch, view))
  OBVIOUS
<1>5. PICK index : index = Dashboard!getStepIndex(st, ch, view)
  OBVIOUS
<1>6. n \in {4, 6, 7} /\ index \in 0..n /\ (index = n <=> st \in Done)
  BY <1>3, <1>4, <1>5, StepsAndIndex
<1>7. PICK done : done = Dashboard!Ticked(index, n)
  OBVIOUS
<1>8. PICK percent : percent = Dashboard!Share(IF index = 0 THEN 0 ELSE index - 1, n - 1)
  OBVIOUS
<1>9. /\ Dashboard!Stepper(st, ch, view).done = done
      /\ Dashboard!Stepper(st, ch, view).percent = percent
  BY <1>4, <1>5, <1>7, <1>8 DEF Dashboard!Stepper
<1>10. /\ \A i \in done : 1..i \subseteq done
       /\ done = 1..n <=> index = n
       /\ percent = 100 <=> index = n
  <2>1. n \in {4, 6, 7} /\ index \in 0..n
    BY <1>6
  <2>2. FirstOnesTicked(index, n)
    BY <2>1, TickedOff
  <2> QED BY <1>7, <1>8, <2>2 DEF FirstOnesTicked
<1>11. Dashboard!Asked = "done" <=> st \in Done
  BY <1>1, <1>3, PartsOfThePage DEF Dashboard!Asked
<1>12. Len(Dashboard!ONBOARDING_STEPS) \in Dashboard!TimelineView(st).done <=> st \in Done
  <2>1. Len(Dashboard!ONBOARDING_STEPS) = 7
    BY DEF Dashboard!ONBOARDING_STEPS
  <2> QED BY <1>3, <2>1, TimelineIs
<1>13. Dashboard!SummaryCards(st).activation = "active" <=> st \in Done
  BY <1>3, SummaryIs
<1>14. Dashboard!getActionHint(st, view) = "done" <=> st \in Done
  BY <1>3, HintIs
<1> QED BY <1>1, <1>2, <1>4, <1>6, <1>9, <1>10, <1>11, <1>12, <1>13, <1>14 DEF Done

LEMMA ShownProgress ==
  ASSUME DashInv
  PROVE  Dashboard!ProgressIsKept
<1> SUFFICES ASSUME Dashboard!Shown, before # "none", ~lapsed
             PROVE  Percent(client.channel, dashboard.stage) >= Percent(client.channel, before)
  BY DEF Dashboard!ProgressIsKept, Percent
<1>1. /\ client.channel \in {"DIRECT", "AGGREGATOR"} /\ dashboard.stage \in Dashboard!Stage
      /\ before \in Dashboard!Stage /\ "none" \notin Dashboard!Stage
  BY ShownIs DEF DashInv, DashTypes, Dashboard!Stage
<1>2. Percent(client.channel, before) <= Percent(client.channel, dashboard.stage)
  BY <1>1 DEF DashInv, Climbs
<1>3. Percent(client.channel, before) \in Int /\ Percent(client.channel, dashboard.stage) \in Int
  BY <1>1, PercentInt
<1> QED BY <1>2, <1>3

LEMMA ShownTimeline ==
  ASSUME DashInv
  PROVE  Dashboard!OneTimeline
<1> SUFFICES ASSUME Dashboard!Shown, client.channel = "DIRECT", dashboard.stage # "REJECTED"
             PROVE
    LET stepper == Dashboard!Stepper(dashboard.stage, "DIRECT", "client")
    IN /\ Dashboard!TimelineView(dashboard.stage)
            = [done |-> stepper.done, current |-> stepper.current]
       /\ 2 \in stepper.done => Dashboard!SummaryCards(dashboard.stage).payment = "completed"
  BY DEF Dashboard!OneTimeline
<1>1. PICK st : st = dashboard.stage
  OBVIOUS
<1>2. st \in Dashboard!Stage
  BY <1>1, ShownIs
<1> DEFINE stepper == Dashboard!Stepper(st, "DIRECT", "client")
<1>3. Dashboard!TimelineView(st) = [done |-> stepper.done, current |-> stepper.current]
  BY <1>1, <1>2, TimelineIs
<1>4. ASSUME 2 \in stepper.done PROVE Dashboard!SummaryCards(st).payment = "completed"
  <2>1. PICK i : i = Dashboard!getStepIndex(st, "DIRECT", "client")
    OBVIOUS
  <2>2. stepper.done = Dashboard!Ticked(i, 7)
    <3>1. Len(Dashboard!getOnboardingSteps("DIRECT", "client")) = 7
      BY DEF Dashboard!ONBOARDING_STEPS, Dashboard!getOnboardingSteps
    <3> QED BY <2>1, <3>1 DEF Dashboard!Stepper
  <2>3. i \in 0..7
    BY <1>2, <2>1, DirectIndexIs
  <2>4. i >= 3
    <3>1. 2 \in Dashboard!Ticked(i, 7)
      BY <1>4, <2>2
    <3> QED BY <2>3, <3>1 DEF Dashboard!Ticked
  <2> QED BY <1>2, <2>1, <2>4, SummaryIs
<1> QED BY <1>1, <1>3, <1>4

LEMMA ShownAsk ==
  ASSUME DashInv
  PROVE  Dashboard!AsksForWhatIsTaken
<1> SUFFICES ASSUME Dashboard!Shown, ~stale
             PROVE
    /\ \A ask \in {"kyc", "sign"} :
         /\ Dashboard!Asked = ask => Dashboard!UploadAllowed(client.stage) = ask
         /\ Dashboard!Asked = ask <=> Dashboard!getActionHint(dashboard.stage, "client") = ask
    /\ Dashboard!Asked = "kyc" <=> Dashboard!SummaryCards(dashboard.stage).kyc = "pending"
    /\ Dashboard!Asked = "sign"
         <=> Dashboard!SummaryCards(dashboard.stage).agreement = "draft_shared"
    /\ "rejected" \notin filed =>
         (Dashboard!getNotification(dashboard.stage, dashboard.documents) = "draft"
            <=> client.stage = "AGREEMENT_DRAFT_SHARED" /\ "draft" \in filed)
  BY DEF Dashboard!AsksForWhatIsTaken
<1>1. PICK st : st = client.stage
  OBVIOUS
<1>2. /\ st \in Dashboard!Stage /\ dashboard.stage = st
      /\ dashboard.documents = Dashboard!findMyDocuments
  BY <1>1, ShownIs
<1>3. /\ Dashboard!Asked = "kyc" <=> st \in {"PAYMENT_CONFIRMED", "KYC_IN_PROGRESS"}
      /\ Dashboard!Asked = "sign" <=> st = "AGREEMENT_DRAFT_SHARED"
  BY <1>2, PartsOfThePage DEF Dashboard!Asked
<1>4. /\ Dashboard!getActionHint(st, "client") = "kyc"
           <=> st \in {"PAYMENT_CONFIRMED", "KYC_IN_PROGRESS"}
      /\ Dashboard!getActionHint(st, "client") = "sign" <=> st = "AGREEMENT_DRAFT_SHARED"
  BY <1>2, HintIs
<1>5. /\ Dashboard!SummaryCards(st).kyc = "pending"
           <=> st \in {"PAYMENT_CONFIRMED", "KYC_IN_PROGRESS"}
      /\ Dashboard!SummaryCards(st).agreement = "draft_shared" <=> st = "AGREEMENT_DRAFT_SHARED"
  BY <1>2, SummaryIs
<1>6. /\ st \in {"PAYMENT_CONFIRMED", "KYC_IN_PROGRESS"} => Dashboard!UploadAllowed(st) = "kyc"
      /\ st = "AGREEMENT_DRAFT_SHARED" => Dashboard!UploadAllowed(st) = "sign"
  BY DEF Dashboard!UploadAllowed
<1>7. ASSUME "rejected" \notin filed
      PROVE  Dashboard!getNotification(st, Dashboard!findMyDocuments) = "draft"
               <=> st = "AGREEMENT_DRAFT_SHARED" /\ "draft" \in filed
  <2>1. CASE st = "AGREEMENT_DRAFT_SHARED"
    <3>1. Dashboard!findMyDocuments = filed
      BY <1>1, <2>1 DEF Dashboard!findMyDocuments
    <3> QED BY <1>7, <2>1, <3>1 DEF Dashboard!getNotification
  <2>2. CASE st # "AGREEMENT_DRAFT_SHARED"
    BY <2>2 DEF Dashboard!getNotification
  <2> QED BY <2>1, <2>2
<1>8. \A ask \in {"kyc", "sign"} :
        /\ Dashboard!Asked = ask => Dashboard!UploadAllowed(st) = ask
        /\ Dashboard!Asked = ask <=> Dashboard!getActionHint(st, "client") = ask
  BY <1>3, <1>4, <1>6
<1> QED BY <1>1, <1>2, <1>3, <1>5, <1>7, <1>8

LEMMA DashStart ==
  ASSUME Dashboard!DashboardInit
  PROVE  DashInv
<1>1. /\ client \in [channel : {"DIRECT", "AGGREGATOR"}, stage : Dashboard!Stage]
      /\ awaited = {"company", "documents"} /\ stale = FALSE /\ before = "none"
      /\ lapsed = FALSE
      /\ dashboard = [view |-> "loading", stage |-> "none", documents |-> {}]
  BY DEF Dashboard!DashboardInit, Dashboard!Blank
<1>2. DashTypes
  BY <1>1 DEF DashTypes
<1>3. Loaded
  BY <1>1 DEF Loaded
<1>4. Climbs
  BY <1>1 DEF Climbs
<1> QED BY <1>2, <1>3, <1>4 DEF DashInv

\* Each part of a client's dashboard tells the same progress of the onboarding, complete exactly
\* when the company is active; it is no less than at an earlier visit, and what it asks for is
\* what the server takes: Dashboard.tsx, onboardingSteps.ts, OnboardingStepper.tsx,
\* TimelineView.tsx, NextActionCard.tsx and SummaryCards.tsx.
THEOREM Tracked_as_it_is == FrontSpec => []TrackedAsItIs
<1>1. FrontInit => DashInv
  BY DashStart DEF FrontInit
<1>2. DashInv /\ [FrontNext]_frontVars => DashInv'
  <2> SUFFICES ASSUME DashInv, [FrontNext]_frontVars PROVE DashInv'
    OBVIOUS
  <2>1. Dashboard!DashboardNext \/ UNCHANGED dashboardVars
    BY PageSteps
  <2> QED BY <2>1, DashKept DEF dashboardVars
<1>3. DashInv => TrackedAsItIs
  BY ShownComplete, ShownProgress, ShownTimeline, ShownAsk DEF TrackedAsItIs
<1> QED BY <1>1, <1>2, <1>3, PTL DEF FrontSpec

=============================================================================
