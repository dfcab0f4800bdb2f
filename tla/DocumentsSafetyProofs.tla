------------------------- MODULE DocumentsSafetyProofs ------------------------
(***************************************************************************)
(* Theorems about Documents: its safety properties, each with the          *)
(* invariant that its proof needs, over the forms of DocumentsProofs.      *)
(***************************************************************************)
EXTENDS DocumentsProofs

-----------------------------------------------------------------------------
(* Versions.                                                               *)

\* What a document or an upload under way has seen is still there, of the same company and
\* older, as long as the company is.
Seen(S, c, ver) == \A e \in S : e \in Present /\ row[e].co = c /\ row[e].version < ver
Versioned ==
  /\ \A d \in Present : /\ stage[row[d].co] # Gone
                        /\ Seen(row[d].known, row[d].co, row[d].version)
  /\ \A w \in Worker : \A c \in Company :
       job[w].co = c /\ stage[c] # Gone => Seen(job[w].known, c, job[w].ver)

\* Only the removal of a company takes its row away, and nothing brings it back.
LEMMA GoneStays ==
  ASSUME Formed, [Next]_vars, NEW c \in Company, stage[c] = Gone
  PROVE  stage'[c] = Gone
<1>1. ASSUME NEW w \in Worker, Step(w), Form(job[w])
      PROVE  stage'[c] = Gone
  BY <1>1, StagesGoOn
<1>2. ASSUME NEW w \in Worker, NEW b \in Company, Begun(w, b)
      PROVE  stage'[c] = Gone
  BY <1>2 DEF Begun
<1>3. ASSUME NEW b \in Company, onPaymentConfirmed(b)
      PROVE  stage'[c] = Gone
  BY <1>3 DEF onPaymentConfirmed, Formed, IInv, Typed, Gone
<1> QED BY <1>1, <1>2, <1>3, Kinds DEF Crash, vars

LEMMA StaysThere ==
  ASSUME NEW w \in Worker, Formed, Form(job[w]), Step(w), ~deleteClientProfile(w),
         NEW c \in Company
  PROVE  stage'[c] = Gone => stage[c] = Gone
<1>1. CASE writeStage(w) \/ saveProfile(w)
  BY <1>1, StageWritten DEF Formed, Later, Stage, Gone
<1>2. CASE ~(writeStage(w) \/ saveProfile(w))
  BY <1>2, StagesGoOn
<1> QED BY <1>1, <1>2

\* A row stays what it is, but for its status.
SameRow(e) == /\ row'[e].co = row[e].co /\ row'[e].version = row[e].version
              /\ row'[e].known = row[e].known /\ row'[e].by = row[e].by
RowsKept == Present' = Present /\ \A e \in Present : SameRow(e)

LEMMA RowsGoOn ==
  ASSUME NEW w \in Worker, Formed, Form(job[w]), Step(w)
  PROVE  RowsKept \/ InsertRow(w) \/ deleteClientProfile(w)
<1>1. ASSUME row' = row
      PROVE  RowsKept
  BY <1>1 DEF RowsKept, SameRow, Present
<1>2. CASE UpdateStatus(w)
  <2>1. Present' = Present
    BY <1>2, UpdateStatusDoes DEF Formed
  <2>2. ASSUME NEW e \in Present
        PROVE  SameRow(e)
    BY <1>2, UpdateStatusDoes DEF Formed, SameRow
  <2> QED BY <2>1, <2>2 DEF RowsKept
<1>3. CASE Looks(w)
  BY <1>1, <1>3, Looking DEF Quiet, Formed
<1>4. CASE ~Looks(w) /\ ~UpdateStatus(w)
  BY <1>1, <1>4 DEF Step, Looks, ReadVersion, PutObject, writeStage, saveProfile,
     disconnectUsers, deleteFiles, deleteUsers
<1> QED BY <1>2, <1>3, <1>4

LEMMA VersionedKept ==
  ASSUME Formed, Versioned,
         \A c \in Company : stage'[c] # Gone => stage[c] # Gone,
         \A e \in Present : stage'[row[e].co] # Gone => e \in Present' /\ SameRow(e),
         \A d \in Present' :
           /\ stage'[row'[d].co] # Gone
           /\ \/ d \in Present /\ SameRow(d)
              \/ \A e \in row'[d].known : /\ e \in Present' /\ row'[e].co = row'[d].co
                                          /\ row'[e].version < row'[d].version,
         \A w \in Worker : \A c \in Company : job'[w].co = c /\ stage'[c] # Gone =>
           \/ job'[w].known = {}
           \/ job[w].co = c /\ job'[w].known = job[w].known /\ job'[w].ver = job[w].ver
           \/ \A e \in job'[w].known : /\ e \in Present /\ row[e].co = c
                                       /\ row[e].version < job'[w].ver
  PROVE  Versioned'
<1>1. ASSUME NEW d \in Present'
      PROVE  \A e \in row'[d].known : /\ e \in Present' /\ row'[e].co = row'[d].co
                                      /\ row'[e].version < row'[d].version
  <2>1. CASE d \in Present /\ SameRow(d)
    <3>1. \A e \in row[d].known : /\ e \in Present /\ row[e].co = row[d].co
                                  /\ row[e].version < row[d].version
      BY <2>1 DEF Versioned, Seen
    <3>2. stage'[row[d].co] # Gone
      BY <2>1 DEF SameRow
    <3> QED BY <2>1, <3>1, <3>2 DEF SameRow
  <2> QED BY <2>1
<1>2. ASSUME NEW w \in Worker, NEW c \in Company, job'[w].co = c, stage'[c] # Gone
      PROVE  \A e \in job'[w].known : /\ e \in Present' /\ row'[e].co = c
                                      /\ row'[e].version < job'[w].ver
  <2>1. \A e \in job'[w].known : /\ e \in Present /\ row[e].co = c
                                 /\ row[e].version < job'[w].ver
    BY <1>2 DEF Versioned, Seen
  <2> QED BY <1>2, <2>1 DEF SameRow
<1> QED BY <1>1, <1>2 DEF Versioned, Seen

LEMMA VersionedInit == Init => Versioned
<1> SUFFICES ASSUME Init PROVE Versioned
  OBVIOUS
<1>1. PICK old \in SUBSET Company :
        /\ stage = [c \in Company |-> IF c \in old THEN "KYC_REVIEW"
                                      ELSE IF channel[c] = "DIRECT" THEN "PAYMENT_PENDING"
                                      ELSE "KYC_IN_PROGRESS"]
        /\ \E of \in [KycDocs -> old \cup {"none"}] :
             row = [d \in {e \in KycDocs : of[e] # "none"} |->
                      [co |-> of[d], version |-> 1, status |-> "REVIEW_PENDING",
                       known |-> {}, by |-> "server"]]
  BY DEF Init
<1>2. \A c \in Company : stage[c] # Gone
  BY <1>1 DEF Gone
<1>3. \A d \in Present : row[d].known = {} /\ row[d].co \in Company
  <2>1. PICK of \in [KycDocs -> old \cup {"none"}] :
          row = [d \in {e \in KycDocs : of[e] # "none"} |->
                   [co |-> of[d], version |-> 1, status |-> "REVIEW_PENDING",
                    known |-> {}, by |-> "server"]]
    BY <1>1
  <2> QED BY <2>1 DEF Present
<1>4. \A w \in Worker : job[w].known = {}
  BY DEF Init, Idle
<1> QED BY <1>2, <1>3, <1>4 DEF Versioned, Seen

LEMMA VersionedGoesOn ==
  ASSUME NEW w \in Worker, Formed, Versioned, Form(job[w]), Went(w), Step(w)
  PROVE  Versioned'
<1>0. \A d \in Present : row[d].co \in Company /\ stage[row[d].co] # Gone
  BY DEF Formed, IInv, Typed, RowOK, Versioned
<1>1. \A c \in Company : stage'[c] # Gone => stage[c] # Gone
  BY GoneStays DEF Next
<1>2. \A v \in Worker \ {w} : job'[v] = job[v]
  BY DEF Went
<1>3. ASSUME Now(w).do # "version"
      PROVE  \/ job'[w].known = {}
             \/ /\ job'[w].co = job[w].co
                /\ job'[w].known = job[w].known /\ job'[w].ver = job[w].ver
  BY <1>3 DEF Went, Idle
<1>4. CASE ReadVersion(w)
  <2>1. /\ Quiet /\ job'[w].todo # <<>> /\ Now(w).do = "version"
        /\ job'[w].known \subseteq DocsOf(job[w].co) /\ job'[w].ver \in VersionAfter(job'[w].known)
    BY <1>4, VersionsRead DEF Formed, DocsLike
  <2>2. PICK S : S = job'[w].known
    OBVIOUS
  <2>3. S \subseteq Present /\ \A e \in S : row[e].co = job[w].co /\ row[e].version \in Nat
    BY <2>1, <2>2 DEF DocsOf, Formed, Fields, Row
  <2>4. \A e \in S : row[e].version < job'[w].ver
    BY <2>1, <2>2, <2>3 DEF VersionAfter, Newest
  <2>5. job'[w].co = job[w].co
    BY <2>1 DEF Went
  <2>6. RowsKept /\ stage' = stage
    BY <2>1 DEF Quiet, RowsKept, SameRow, Present
  <2>7. \A d \in Present' : stage'[row'[d].co] # Gone /\ d \in Present /\ SameRow(d)
    BY <1>0, <2>6 DEF RowsKept, SameRow
  <2> QED BY <1>1, <1>2, <2>2, <2>3, <2>4, <2>5, <2>6, <2>7, VersionedKept DEF RowsKept
<1>5. CASE InsertRow(w)
  <2>1. Now(w).do = "row" /\ stage' = stage
    BY <1>5, InsertRowDoes DEF Formed
  <2>2. CASE row' = row
    <3>1. \A d \in Present' : stage'[row'[d].co] # Gone /\ d \in Present /\ SameRow(d)
      BY <1>0, <2>1, <2>2 DEF SameRow, Present
    <3>2. Present' = Present
      BY <2>2 DEF Present
    <3> QED BY <1>1, <1>2, <1>3, <2>1, <3>1, <3>2, VersionedKept
  <2>3. CASE row' # row
    <3> DEFINE d == job[w].d
               c == job[w].co
    <3>1. /\ stage[c] # Gone /\ Present' = Present \cup {d}
          /\ \A e \in Present : row'[e] = row[e]
          /\ d \notin Present => row'[d] = [co |-> c, version |-> job[w].ver,
                                            status |-> job[w].st, known |-> job[w].known,
                                            by |-> Now(w).by]
      BY <1>5, <2>3, InsertRowDoes DEF Formed
    <3>2. \A e \in Present : e \in Present' /\ SameRow(e)
      BY <3>1 DEF SameRow
    <3>3. \A e \in job[w].known : e \in Present /\ row[e].co = c /\ row[e].version < job[w].ver
      BY <3>1 DEF Went, Versioned, Seen
    <3>4. d \notin Present => /\ row'[d].co = c /\ row'[d].known = job[w].known
                              /\ row'[d].version = job[w].ver
      BY <3>1
    <3> HIDE DEF d, c
    <3>5. d \notin Present =>
            \A e \in row'[d].known : /\ e \in Present' /\ row'[e].co = row'[d].co
                                     /\ row'[e].version < row'[d].version
      BY <3>1, <3>3, <3>4
    <3>6. \A e \in Present' : stage'[row'[e].co] # Gone
      BY <1>0, <2>1, <3>1, <3>4
    <3> QED BY <1>1, <1>2, <1>3, <2>1, <3>1, <3>2, <3>5, <3>6, VersionedKept
  <2> QED BY <2>2, <2>3
<1>6. CASE deleteClientProfile(w)
  <2>1. Now(w).do = "drop"
    BY <1>6, deleteClientProfileDoes DEF Formed
  <2>2. CASE stage[job[w].co] = Gone
    <3>1. UNCHANGED <<stage, row>>
      BY <1>6, <2>2, deleteClientProfileDoes DEF Formed
    <3>2. Present' = Present /\ \A d \in Present' : stage'[row'[d].co] # Gone /\ SameRow(d)
      BY <1>0, <3>1 DEF SameRow, Present
    <3> QED BY <1>1, <1>2, <1>3, <2>1, <3>2, VersionedKept
  <2>3. CASE stage[job[w].co] # Gone
    <3>1. PICK c \in Company : c = job[w].co
      BY DEF Went
    <3>2. /\ stage'[c] = Gone /\ \A b \in Company \ {c} : stage'[b] = stage[b]
          /\ Present' = Present \ DocsOf(c) /\ \A d \in Present' : row'[d] = row[d]
      BY <1>6, <2>3, <3>1, deleteClientProfileDoes DEF Formed
    <3>3. \A e \in Present : row[e].co # c => e \in Present' /\ SameRow(e)
      BY <3>2 DEF SameRow, DocsOf
    <3>4. \A d \in Present' : stage'[row'[d].co] # Gone /\ d \in Present /\ SameRow(d)
      BY <1>0, <3>2 DEF SameRow, DocsOf
    <3> QED BY <1>1, <1>2, <1>3, <2>1, <3>2, <3>3, <3>4, VersionedKept
  <2> QED BY <2>2, <2>3
<1>7. CASE ~ReadVersion(w) /\ ~InsertRow(w) /\ ~deleteClientProfile(w)
  <2>1. RowsKept
    BY <1>7, RowsGoOn
  <2>2. Now(w).do # "version"
    <3>1. CASE Looks(w)
      BY <3>1, Looking DEF Formed, TameDo
    <3>2. CASE ~Looks(w)
      BY <1>7, <3>2 DEF Step, Looks, PutObject, writeStage, UpdateStatus, saveProfile,
         disconnectUsers, deleteFiles, deleteUsers, At, Now
    <3> QED BY <3>1, <3>2
  <2>3. \A c \in Company : stage[c] # Gone => stage'[c] # Gone
    BY <1>7, StaysThere
  <2>4. \A d \in Present' : stage'[row'[d].co] # Gone /\ d \in Present /\ SameRow(d)
    BY <1>0, <2>1, <2>3 DEF RowsKept, SameRow
  <2> QED BY <1>1, <1>2, <1>3, <2>1, <2>2, <2>4, VersionedKept DEF RowsKept
<1> QED BY <1>4, <1>5, <1>6, <1>7

\* Steps that are no running request's.
LEMMA VersionedElse ==
  ASSUME Formed, Versioned, [Next]_vars, row' = row,
         \A c \in Company : stage'[c] = Gone <=> stage[c] = Gone,
         \A w \in Worker : job'[w] = job[w] \/ job'[w].known = {}
  PROVE  Versioned'
<1>1. \A d \in Present : row[d].co \in Company /\ stage[row[d].co] # Gone
  BY DEF Formed, IInv, Typed, RowOK, Versioned
<1>2. Present' = Present /\ \A d \in Present : SameRow(d) /\ stage'[row'[d].co] # Gone
  BY <1>1 DEF Present, SameRow
<1> QED BY <1>2, VersionedKept

\* Of two versions of a document that did not overlap, the later one has the higher number:
\* the highest that its upload saw, and one (ReadVersion, InsertRow; VersionsGrow).
THEOREM Versions_grow == Spec => []VersionsGrow
<1>1. Formed /\ Versioned /\ [Next]_vars => Versioned'
  <2> SUFFICES ASSUME Formed, Versioned, [Next]_vars
               PROVE  Versioned'
    OBVIOUS
  <2>1. ASSUME NEW w \in Worker, Step(w), Form(job[w]), Went(w)
        PROVE  Versioned'
    BY <2>1, VersionedGoesOn
  <2>2. ASSUME NEW w \in Worker, NEW c \in Company, Begun(w, c)
        PROVE  Versioned'
    BY <2>2, VersionedElse DEF Begun
  <2>3. ASSUME NEW c \in Company, onPaymentConfirmed(c)
        PROVE  Versioned'
    BY <2>3, VersionedElse DEF onPaymentConfirmed, Formed, IInv, Typed, Gone
  <2>4. CASE Crash
    BY <2>4, VersionedElse DEF Crash, Idle
  <2>5. CASE UNCHANGED vars
    BY <2>5, VersionedElse DEF vars
  <2> QED BY <2>1, <2>2, <2>3, <2>4, <2>5, Kinds
<1>2. Versioned => VersionsGrow
  BY DEF Versioned, Seen, VersionsGrow
<1> QED BY <1>1, <1>2, VersionedInit, Forming, PTL DEF Spec

-----------------------------------------------------------------------------
(* Files.                                                                  *)

\* An upload whose row is not there yet; one that has stored its file.
Pending(w) == job[w].todo \in Uploading(Seq(Tame))
Stored(w)  == job[w].todo \in ByServer(Seq(Tame))
Unlinked(w) == job[w].op = "remove" /\ job[w].todo # RemovalSteps

\* No two uploads share a file key, a file goes in before its row does, and a removal that
\* deletes files has taken the login away.
Filed ==
  /\ FileBehindRow
  /\ \A w \in Worker : Pending(w) => job[w].d \notin Present
  /\ \A w \in Worker : \A v \in Worker \ {w} : Pending(w) /\ Pending(v) => job[w].d # job[v].d
  /\ \A w \in Worker : Stored(w) => job[w].d \in object
  /\ \A w \in Worker : \A c \in Company :
       Unlinked(w) /\ job[w].co = c => login[c] # "linked"

LEMMA PendingGoesOn ==
  ASSUME NEW w \in Worker, Formed, Went(w)
  PROVE  /\ Pending(w)' => Pending(w) /\ job'[w].d = job[w].d /\ Now(w).do # "row"
         /\ Stored(w)' => Now(w).do = "put" /\ Pending(w) /\ job'[w].d = job[w].d
         /\ Stored(w) => Pending(w)
         /\ Now(w).do = "row" => Pending(w) /\ (Now(w).by = "server" => Stored(w))
         /\ Unlinked(w)' => /\ job'[w].co = job[w].co
                            /\ Unlinked(w) \/ Now(w).do = "unlink"
<1> DEFINE T == Seq(Tame)
<1>0. /\ job[w].todo # <<>> /\ Form(job[w]) /\ IInv
      /\ job'[w].todo # <<>> => /\ job'[w].op = job[w].op /\ job'[w].co = job[w].co
                                /\ job'[w].d = job[w].d
      /\ job'[w].todo = <<>> => job'[w] = Idle
  BY DEF Formed, Forms, Went
<1>1. ASSUME Pending(w)'
      PROVE  /\ Pending(w) /\ job'[w].d = job[w].d /\ Now(w).do # "row"
             /\ job'[w].todo = Rest(w)
  <2>1. job'[w].todo \in Uploading(T) /\ job'[w].todo # <<>>
    BY <1>1, FormsApart DEF Pending
  <2>2. job'[w].todo \notin T /\ job'[w].todo \notin Removals
    BY <2>1, FormsApart, RemovalLists
  <2>3. job[w].todo \notin T \cup Judging \cup Removals
    BY <1>0, <2>1, <2>2, LeftOf
  <2>4. Pending(w)
    BY <1>0, <2>3 DEF Form, Pending
  <2>5. job'[w].todo = Rest(w)
    BY <1>0, <2>1, <2>4, LeftOf DEF Pending
  <2>6. Now(w).do # "row"
    BY <2>2, <2>4, <2>5, UploadsGoOn DEF Pending, Now, Rest
  <2> QED BY <1>0, <2>1, <2>4, <2>5, <2>6
<1>2. ByServer(T) \subseteq Uploading(T)
  BY DEF ByServer, Uploading
<1>3. ASSUME Stored(w)'
      PROVE  Now(w).do = "put"
  <2>1. Pending(w)' /\ job'[w].todo \in ByServer(T)
    BY <1>2, <1>3 DEF Pending, Stored
  <2>2. /\ Pending(w) /\ job'[w].todo = Rest(w) /\ Now(w).do # "row"
    BY <1>1, <2>1
  <2>3. Now(w).do \in {"version", "put"}
    BY <2>2, FormsApart DEF Pending, Now
  <2>4. \A s \in ByServer(T) : s \notin Puts(T) \cup Presigned(T)
    BY DEF ByServer, Puts, Presigned, Inserts
  <2> QED BY <2>1, <2>2, <2>3, <2>4, UploadsGoOn DEF Pending, Now, Rest
<1>4. ASSUME Now(w).do = "row"
      PROVE  Pending(w) /\ (Now(w).by = "server" => Stored(w))
  <2>1. job[w].todo \in Uploading(T)
    BY <1>0, <1>4, HeadForms
  <2>2. job[w].todo \in Inserts(T)
    BY <1>4, <2>1 DEF Uploading, Puts, Versions, Now
  <2> QED BY <2>1, <2>2 DEF ByServer, Pending, Stored, Now
<1>5. ASSUME Unlinked(w)'
      PROVE  job'[w].co = job[w].co /\ (Unlinked(w) \/ Now(w).do = "unlink")
  <2>1. job'[w].op = "remove"
    BY <1>5 DEF Unlinked
  <2>2. job'[w].todo # <<>>
    BY <1>0, <2>1 DEF Idle
  <2>3. job[w].op = "remove" /\ job[w].todo \in Removals
    BY <1>0, <2>1, <2>2 DEF Form
  <2>4. job[w].todo = RemovalSteps => Now(w).do = "unlink"
    BY DEF RemovalSteps, Do, Now
  <2> QED BY <1>0, <2>2, <2>3, <2>4 DEF Unlinked
<1>6. Stored(w) => Pending(w)
  BY <1>2 DEF Stored, Pending
<1> QED BY <1>0, <1>1, <1>3, <1>4, <1>5, <1>6, <1>2 DEF Stored, Pending

LEMMA FiledKept ==
  ASSUME NEW w \in Worker, Formed, Filed, Went(w),
         \A d \in object : d \in object' \/ (d \in Present /\ login[row[d].co] # "linked"),
         Stored(w)' => job[w].d \in object',
         \A c \in Company : login'[c] = "linked" => login[c] = "linked",
         Now(w).do = "unlink" => \A c \in {job[w].co} : login'[c] # "linked",
         \A d \in Present' :
           \/ d \in Present /\ SameRow(d)
           \/ /\ d = job[w].d /\ d \notin Present /\ Now(w).do = "row"
              /\ row'[d].by = Now(w).by
  PROVE  Filed'
<1>0. \A v \in Worker \ {w} : job'[v] = job[v]
  BY DEF Went
<1>1. FileBehindRow'
  <2> SUFFICES ASSUME NEW d \in Present', row'[d].by = "server", login'[row'[d].co] = "linked"
               PROVE  d \in object'
    BY DEF FileBehindRow
  <2>1. CASE d \in Present /\ SameRow(d)
    <3>1. row[d].co \in Company
      BY <2>1 DEF Formed, IInv, Typed, RowOK
    <3> QED BY <2>1, <3>1 DEF SameRow, Filed, FileBehindRow
  <2>2. CASE /\ d = job[w].d /\ d \notin Present /\ Now(w).do = "row"
             /\ row'[d].by = Now(w).by
    <3>1. Stored(w)
      BY <2>2, PendingGoesOn
    <3> QED BY <2>2, <3>1 DEF Filed
  <2> QED BY <2>1, <2>2
<1>2. ASSUME NEW v \in Worker, Pending(v)'
      PROVE  /\ Pending(v) /\ job'[v].d = job[v].d /\ job[v].d \notin Present'
             /\ Stored(v)' => job[v].d \in object'
  <2>1. Pending(v) /\ job'[v].d = job[v].d
    BY <1>0, <1>2, PendingGoesOn DEF Pending
  <2>2. job[v].d \notin Present
    BY <2>1 DEF Filed
  <2>3. v # w => job[v].d # job[w].d \/ Now(w).do # "row"
    BY <2>1, PendingGoesOn DEF Filed
  <2>4. v = w => Now(w).do # "row"
    BY <1>2, PendingGoesOn
  <2>5. job[v].d \notin Present'
    BY <2>2, <2>3, <2>4
  <2>6. Stored(v)' => job[v].d \in object'
    BY <1>0, <2>2 DEF Stored, Filed
  <2> QED BY <2>1, <2>5, <2>6
<1>3. \A v \in Worker : Stored(v)' => Pending(v)'
  BY DEF Stored, Pending, ByServer, Uploading
<1>4. ASSUME NEW v \in Worker, NEW c \in Company, Unlinked(v)', job'[v].co = c
      PROVE  login'[c] # "linked"
  <2>1. CASE v = w
    BY <1>4, <2>1, PendingGoesOn DEF Filed
  <2>2. CASE v # w
    BY <1>0, <1>4, <2>2 DEF Filed, Unlinked
  <2> QED BY <2>1, <2>2
<1>5. /\ \A v \in Worker : Pending(v)' => job'[v].d \notin Present'
      /\ \A v \in Worker : Stored(v)' => job'[v].d \in object'
  BY <1>2, <1>3
<1>6. \A v \in Worker : \A u \in Worker \ {v} : Pending(v)' /\ Pending(u)' => job'[v].d # job'[u].d
  BY <1>2 DEF Filed
<1> QED BY <1>1, <1>4, <1>5, <1>6 DEF Filed

LEMMA FiledGoesOn ==
  ASSUME NEW w \in Worker, Formed, Filed, Form(job[w]), Went(w), Step(w)
  PROVE  Filed'
<1>0. Stored(w)' => Now(w).do = "put"
  BY PendingGoesOn
<1>1. ASSUME Present' = Present, \A d \in Present : SameRow(d), UNCHANGED <<login, object>>,
             Now(w).do \notin {"put", "unlink"}
      PROVE  Filed'
  BY <1>0, <1>1, FiledKept
<1>2. ASSUME row' = row
      PROVE  Present' = Present /\ \A d \in Present : SameRow(d)
  BY <1>2 DEF Present, SameRow
<1>3. CASE ReadVersion(w)
  BY <1>1, <1>2, <1>3, VersionsRead DEF Quiet, Formed
<1>4. CASE Looks(w)
  BY <1>1, <1>2, <1>4, Looking DEF Quiet, Formed, TameDo
<1>5. CASE PutObject(w)
  <2>1. Now(w).do = "put" /\ object' = object \cup {job[w].d} /\ UNCHANGED <<login, row>>
    BY <1>5, PutObjectDoes DEF Formed
  <2> QED BY <1>2, <2>1, FiledKept
<1>6. CASE InsertRow(w)
  <2>1. Now(w).do = "row" /\ UNCHANGED <<login, object>>
    BY <1>6, InsertRowDoes DEF Formed
  <2>2. CASE row' = row
    BY <1>1, <1>2, <2>1, <2>2
  <2>3. CASE row' # row
    <3> DEFINE new == [co |-> job[w].co, version |-> job[w].ver, status |-> job[w].st,
                       known |-> job[w].known, by |-> Now(w).by]
    <3>1. /\ Present' = Present \cup {job[w].d} /\ \A e \in Present : row'[e] = row[e]
          /\ job[w].d \notin Present => row'[job[w].d] = new
      BY <1>6, <2>3, InsertRowDoes DEF Formed
    <3>2. new.by = Now(w).by
      OBVIOUS
    <3> HIDE DEF new
    <3>3. \A e \in Present : SameRow(e)
      BY <3>1 DEF SameRow
    <3> QED BY <1>0, <2>1, <3>1, <3>2, <3>3, FiledKept
  <2> QED BY <2>2, <2>3
<1>7. CASE UpdateStatus(w)
  <2>1. /\ Now(w).do = "status" /\ UNCHANGED <<login, object>> /\ Present' = Present
        /\ \A d \in Present : SameRow(d)
    BY <1>7, UpdateStatusDoes DEF Formed, SameRow
  <2> QED BY <1>1, <2>1
<1>8. CASE writeStage(w) \/ saveProfile(w)
  BY <1>1, <1>2, <1>8, StageWritten DEF Formed
<1>9. CASE disconnectUsers(w)
  <2>1. /\ UNCHANGED <<row, object>> /\ Now(w).do = "unlink"
        /\ \A c \in Company : login'[c] = "linked" => login[c] = "linked"
        /\ \A c \in {job[w].co} : login'[c] # "linked"
    BY <1>9, disconnectUsersDoes, ZenonT(40) DEF Formed
  <2> QED BY <1>0, <1>2, <2>1, FiledKept
<1>10. CASE deleteFiles(w)
  <2>1. /\ UNCHANGED <<row, login>> /\ Now(w).do = "files"
        /\ object \ DocsOf(job[w].co) \subseteq object'
    BY <1>10, deleteFilesDoes DEF Formed
  <2>2. Unlinked(w) /\ job[w].co \in Company
    <3>1. job[w].op = "remove" /\ job[w].todo # <<>>
      BY <2>1, HeadForms DEF Formed, Went
    <3>2. job[w].todo # RemovalSteps
      BY <2>1 DEF Now, RemovalSteps, Do
    <3> QED BY <3>1, <3>2 DEF Unlinked, Went
  <2>3. login[job[w].co] # "linked"
    BY <2>2 DEF Filed
  <2>4. \A d \in object : d \in object' \/ (d \in Present /\ login[row[d].co] # "linked")
    BY <2>1, <2>3 DEF DocsOf
  <2> QED BY <1>0, <1>2, <2>1, <2>4, FiledKept
<1>11. CASE deleteClientProfile(w)
  <2>1. Now(w).do = "drop" /\ UNCHANGED <<login, object>>
    BY <1>11, deleteClientProfileDoes DEF Formed
  <2>2. \A d \in Present' : d \in Present /\ SameRow(d)
    <3>1. CASE row' = row
      BY <1>2, <3>1
    <3>2. CASE row' # row
      <4>1. Present' \subseteq Present /\ \A d \in Present' : row'[d] = row[d]
        BY <1>11, <3>2, deleteClientProfileDoes DEF Formed
      <4> QED BY <4>1 DEF SameRow
    <3> QED BY <3>1, <3>2
  <2> QED BY <1>0, <2>1, <2>2, FiledKept
<1>12. CASE deleteUsers(w)
  <2>1. /\ UNCHANGED <<row, object>> /\ Now(w).do = "users"
        /\ \A c \in Company : login'[c] = "linked" => login[c] = "linked"
    BY <1>12, deleteUsersDoes DEF Formed
  <2> QED BY <1>0, <1>2, <2>1, FiledKept
<1> QED BY <1>3, <1>4, <1>5, <1>6, <1>7, <1>8, <1>9, <1>10, <1>11, <1>12 DEF Step, Looks

LEMMA FiledBegins ==
  ASSUME NEW w \in Worker, NEW c \in Company, Formed, Filed, Begun(w, c)
  PROVE  Filed'
<1>1. UNCHANGED <<login, row, object>> /\ Present' = Present
  BY DEF Begun, Present
<1>2. \A v \in Worker \ {w} : job'[v] = job[v]
  BY DEF Begun
<1>3. Pending(w)' => /\ job'[w].d \notin Present \cup object
                     /\ \A v \in Worker : job[v].d # job'[w].d
  <2>1. \A x : Fresh(x) => x \notin Present \cup object /\ \A v \in Worker : job[v].d # x
    BY DEF Fresh
  <2> QED BY <2>1 DEF Begun, Pending
<1>4. ~Stored(w)'
  BY DEF Begun, Stored
<1>5. ~Unlinked(w)'
  BY DEF Begun, Unlinked
<1>6. \A v \in Worker \ {w} : /\ Pending(v)' = Pending(v) /\ Stored(v)' = Stored(v)
                              /\ Unlinked(v)' = Unlinked(v)
  BY <1>2 DEF Pending, Stored, Unlinked
<1>7. FileBehindRow'
  BY <1>1 DEF FileBehindRow, Filed, Present
<1>8. \A v \in Worker : Pending(v)' => job'[v].d \notin Present'
  BY <1>1, <1>2, <1>3, <1>6 DEF Filed
<1>9. \A v \in Worker : \A u \in Worker \ {v} : Pending(v)' /\ Pending(u)' => job'[v].d # job'[u].d
  BY <1>2, <1>3, <1>6 DEF Filed
<1>10. \A v \in Worker : Stored(v)' => job'[v].d \in object'
  BY <1>1, <1>2, <1>4, <1>6 DEF Filed
<1>11. \A v \in Worker : \A b \in Company : Unlinked(v)' /\ job'[v].co = b => login'[b] # "linked"
  BY <1>1, <1>2, <1>5, <1>6 DEF Filed
<1> QED BY <1>7, <1>8, <1>9, <1>10, <1>11 DEF Filed

\* A document that came through the server has its file, as long as its company is not being
\* removed: the file goes in first, no two uploads share its key, and a removal takes the
\* login away before it deletes files (uploads, remove; FileBehindRow).
THEOREM Files_behind_rows == Spec => []FileBehindRow
<1>1. Formed /\ Filed /\ [Next]_vars => Filed'
  <2> SUFFICES ASSUME Formed, Filed, [Next]_vars
               PROVE  Filed'
    OBVIOUS
  <2>1. ASSUME NEW w \in Worker, Step(w), Form(job[w]), Went(w)
        PROVE  Filed'
    BY <2>1, FiledGoesOn
  <2>2. ASSUME NEW w \in Worker, NEW c \in Company, Begun(w, c)
        PROVE  Filed'
    BY <2>2, FiledBegins
  <2>3. CASE UNCHANGED <<login, row, object, job>>
    BY <2>3 DEF Filed, FileBehindRow, Present, Pending, Stored, Unlinked
  <2>4. CASE Crash
    <3>1. UNCHANGED <<login, row, object>> /\ job' = [w \in Worker |-> Idle]
      BY <2>4 DEF Crash
    <3>2. Idle.todo = <<>> /\ Idle.op = "idle"
      BY DEF Idle
    <3>3. \A w \in Worker : ~Pending(w)' /\ ~Stored(w)' /\ ~Unlinked(w)'
      <4>1. <<>> \notin Uploading(Seq(Tame)) \cup ByServer(Seq(Tame))
        BY FormsApart DEF ByServer, Uploading
      <4> QED BY <3>1, <3>2, <4>1 DEF Pending, Stored, Unlinked
    <3> QED BY <3>1, <3>3 DEF Filed, FileBehindRow, Present
  <2> QED BY <2>1, <2>2, <2>3, <2>4, Kinds DEF onPaymentConfirmed, vars
<1>2. Init => Filed
  <2> SUFFICES ASSUME Init PROVE Filed
    OBVIOUS
  <2>1. object = Present /\ job = [w \in Worker |-> Idle]
    BY DEF Init, Present
  <2>2. Idle.todo = <<>> /\ Idle.op = "idle"
    BY DEF Idle
  <2>3. \A w \in Worker : ~Pending(w) /\ ~Stored(w) /\ ~Unlinked(w)
    <3>1. <<>> \notin Uploading(Seq(Tame)) \cup ByServer(Seq(Tame))
      BY FormsApart DEF ByServer, Uploading
    <3> QED BY <2>1, <2>2, <3>1 DEF Pending, Stored, Unlinked
  <2> QED BY <2>1, <2>3 DEF Filed, FileBehindRow
<1>3. Filed => FileBehindRow
  BY DEF Filed
<1> QED BY <1>1, <1>2, <1>3, Forming, PTL DEF Spec

-----------------------------------------------------------------------------
(* Accounts.                                                               *)

OnRemoval(w, c) == job[w].op = "remove" /\ job[w].co = c

\* The client of a company still has its account, lost it in the end, or will lose it by the
\* one removal under way that has unlinked it.
Holds(h, c) ==
  /\ OnRemoval(h, c) /\ job[h].st = "linked"
  /\ \/ stage[c] # Gone /\ job[h].todo \in {<<Do("files"), Do("drop"), Do("users")>>,
                                            <<Do("drop"), Do("users")>>}
     \/ stage[c] = Gone /\ job[h].todo = <<Do("users")>>
  /\ \A v \in Worker \ {h} : OnRemoval(v, c) => job[v].todo = RemovalSteps
Accounted(c) ==
  \/ history[c] \cap {"crashed", "removed twice"} # {}
  \/ /\ login[c] = "linked" /\ stage[c] # Gone
     /\ \A v \in Worker : OnRemoval(v, c) => job[v].todo = RemovalSteps /\ job[v].st = "linked"
  \/ login[c] = "deleted"
  \/ \E h \in Worker : Holds(h, c)
AllAccounted == \A c \in Company : Accounted(c)

LEMMA HistoryGrows ==
  ASSUME Formed, [Next]_vars, NEW c \in Company
  PROVE  history[c] \subseteq history'[c]
<1>1. ASSUME NEW w \in Worker, Step(w), Form(job[w])
      PROVE  history[c] \subseteq history'[c]
  <2>1. CASE writeStage(w) \/ saveProfile(w)
    <3>1. c # job[w].co => history'[c] = history[c]
      BY <1>1, <2>1, StageWritten DEF Formed
    <3>2. c = job[w].co => history[c] \subseteq history'[c]
      BY <1>1, <2>1, StageWritten DEF Formed
    <3> QED BY <3>1, <3>2
  <2>2. CASE disconnectUsers(w)
    BY <1>1, <2>2, disconnectUsersDoes DEF Formed
  <2>3. CASE Looks(w)
    BY <2>3, Looking DEF Quiet, Formed
  <2>4. CASE ~(writeStage(w) \/ saveProfile(w) \/ disconnectUsers(w) \/ Looks(w))
    BY <1>1, <2>4 DEF Step, Looks, ReadVersion, PutObject, InsertRow, UpdateStatus,
       deleteFiles, deleteClientProfile, deleteUsers
  <2> QED BY <2>1, <2>2, <2>3, <2>4
<1>2. ASSUME NEW w \in Worker, NEW b \in Company, Begun(w, b)
      PROVE  history[c] \subseteq history'[c]
  BY <1>2 DEF Begun
<1>3. CASE Crash
  BY <1>3 DEF Crash
<1> QED BY <1>1, <1>2, <1>3, Kinds DEF onPaymentConfirmed, vars

\* Accounts change only when a removal unlinks or deletes them.
LEMMA LoginsGoOn ==
  ASSUME NEW w \in Worker, Formed, Step(w), NEW c \in Company
  PROVE  login'[c] # login[c] =>
           c = job[w].co /\ Now(w).do \in {"unlink", "users"}
<1>1. CASE disconnectUsers(w) \/ deleteUsers(w)
  BY <1>1, disconnectUsersDoes, deleteUsersDoes DEF Formed
<1>2. CASE Looks(w)
  BY <1>2, Looking DEF Quiet, Formed
<1>3. CASE ~(disconnectUsers(w) \/ deleteUsers(w) \/ Looks(w))
  BY <1>3 DEF Step, Looks, ReadVersion, PutObject, InsertRow, writeStage, UpdateStatus,
     saveProfile, deleteFiles, deleteClientProfile
<1> QED BY <1>1, <1>2, <1>3

LEMMA AccountedStill ==
  ASSUME NEW c \in Company, Accounted(c),
         \A v \in Worker : OnRemoval(v, c)' <=> OnRemoval(v, c),
         \A v \in Worker : OnRemoval(v, c) =>
           job'[v].todo = job[v].todo /\ job'[v].st = job[v].st,
         login'[c] = login[c], stage'[c] = Gone <=> stage[c] = Gone,
         history[c] \subseteq history'[c]
  PROVE  Accounted(c)'
<1>1. CASE history[c] \cap {"crashed", "removed twice"} # {}
  BY <1>1 DEF Accounted
<1>2. CASE \/ /\ login[c] = "linked" /\ stage[c] # Gone
              /\ \A v \in Worker : OnRemoval(v, c) =>
                   job[v].todo = RemovalSteps /\ job[v].st = "linked"
           \/ login[c] = "deleted"
  BY <1>2 DEF Accounted
<1>3. ASSUME NEW h \in Worker, Holds(h, c)
      PROVE  Holds(h, c)'
  BY <1>3 DEF Holds
<1> QED BY <1>1, <1>2, <1>3 DEF Accounted

LEMMA AccountedRemoves ==
  ASSUME NEW w \in Worker, Formed, NEW c \in Company, Accounted(c), Form(job[w]), Went(w),
         Step(w), OnRemoval(w, c)
  PROVE  Accounted(c)'
<1> DEFINE A == <<Do("files"), Do("drop"), Do("users")>>
           B == <<Do("drop"), Do("users")>>
           C == <<Do("users")>>
<1>0. /\ job[w].todo \in Removals /\ job[w].co = c /\ job[w].todo # <<>>
      /\ \A v \in Worker \ {w} : job'[v] = job[v]
      /\ Now(w).do \in {"unlink", "files", "drop", "users"}
      /\ job'[w].todo # <<>> => /\ job'[w].op = "remove" /\ job'[w].co = c
                                /\ job'[w].st = job[w].st
      /\ job'[w].todo = <<>> => job'[w] = Idle
  BY RemovalLists DEF OnRemoval, Form, Went, Now
<1>1. history[c] \subseteq history'[c]
  BY HistoryGrows DEF Next
<1>2. \A v \in Worker \ {w} : /\ OnRemoval(v, c)' <=> OnRemoval(v, c)
                              /\ job'[v].todo = job[v].todo /\ job'[v].st = job[v].st
  BY <1>0 DEF OnRemoval
<1>3. /\ Now(w).do = "unlink" => job[w].todo = RemovalSteps /\ Rest(w) = A
      /\ Now(w).do = "files" => job[w].todo = A /\ Rest(w) = B
      /\ Now(w).do = "drop" => job[w].todo = B /\ Rest(w) = C
      /\ Now(w).do = "users" => job[w].todo = C
  BY <1>0, RemovalLists DEF Now, Rest
<1>4. RemovalSteps # A /\ RemovalSteps # B /\ RemovalSteps # C /\ A # C /\ A # B /\ B # C
      /\ A # <<>> /\ B # <<>> /\ C # <<>>
  <2>1. Head(A).do = "files" /\ Head(B).do = "drop" /\ Head(C).do = "users"
    BY DEF Do
  <2>2. A # <<>> /\ B # <<>> /\ C # <<>>
    OBVIOUS
  <2>3. RemovalSteps # A /\ RemovalSteps # B /\ RemovalSteps # C
    BY RemovalLists
  <2> HIDE DEF A, B, C
  <2> QED BY <2>1, <2>2, <2>3
<1> HIDE DEF A, B, C
<1>5. CASE history[c] \cap {"crashed", "removed twice"} # {}
  BY <1>1, <1>5 DEF Accounted
<1>6. CASE login[c] = "deleted"
  <2>1. login'[c] = "deleted"
    <3>1. CASE disconnectUsers(w)
      BY <1>0, <1>6, <3>1, disconnectUsersDoes DEF Formed
    <3>2. CASE deleteUsers(w)
      BY <1>0, <1>6, <3>2, deleteUsersDoes DEF Formed
    <3>3. CASE ~disconnectUsers(w) /\ ~deleteUsers(w)
      <4>1. CASE Looks(w)
        BY <1>6, <4>1, Looking DEF Quiet, Formed
      <4>2. CASE ~Looks(w)
        BY <1>6, <3>3, <4>2 DEF Step, Looks, ReadVersion, PutObject, InsertRow, writeStage,
           UpdateStatus, saveProfile, deleteFiles, deleteClientProfile
      <4> QED BY <4>1, <4>2
    <3> QED BY <3>1, <3>2, <3>3
  <2> QED BY <2>1 DEF Accounted
<1>7. CASE /\ login[c] = "linked" /\ stage[c] # Gone
           /\ \A v \in Worker : OnRemoval(v, c) =>
                job[v].todo = RemovalSteps /\ job[v].st = "linked"
  <2>1. job[w].todo = RemovalSteps /\ job[w].st = "linked" /\ Now(w).do = "unlink"
    BY <1>0, <1>3, <1>4, <1>7
  <2>2. disconnectUsers(w)
    BY <2>1, Looking, StageWritten DEF Step, Looks, ReadVersion, PutObject, InsertRow,
       writeStage, UpdateStatus, saveProfile, deleteFiles, deleteClientProfile, deleteUsers,
       assertStage, updateStageIfAllowed, updateStage, isDirect, areAllKycDocumentsApproved,
       canActivateCompany, checkDates, At, Now
  <2>3. CASE Removing(c) # {w}
    <3>1. "removed twice" \in history'[c]
      BY <1>0, <2>2, <2>3, disconnectUsersDoes DEF Formed
    <3> QED BY <3>1 DEF Accounted
  <2>4. CASE Removing(c) = {w}
    <3>1. \A v \in Worker \ {w} : ~OnRemoval(v, c)
      BY <2>4 DEF Removing, OnRemoval
    <3>2. /\ job'[w].todo = A /\ stage' = stage
      BY <1>3, <2>1, <2>2, disconnectUsersDoes DEF Formed
    <3>3. Holds(w, c)'
      BY <1>0, <1>2, <1>4, <1>7, <2>1, <3>1, <3>2 DEF Holds, OnRemoval, A, B, C
    <3> QED BY <3>3 DEF Accounted
  <2> QED BY <2>3, <2>4
<1>8. ASSUME NEW h \in Worker, Holds(h, c), login[c] # "deleted"
      PROVE  Accounted(c)'
  <2>1. CASE Now(w).do = "unlink"
    <3>1. job[w].todo = RemovalSteps
      BY <1>3, <2>1
    <3>2. h # w
      BY <1>4, <1>8, <3>1 DEF Holds, A, B, C
    <3>3. Removing(c) # {w}
      BY <1>8, <3>2 DEF Removing, Holds, OnRemoval
    <3>4. disconnectUsers(w)
      BY <2>1, Looking, StageWritten DEF Step, Looks, ReadVersion, PutObject, InsertRow,
         writeStage, UpdateStatus, saveProfile, deleteFiles, deleteClientProfile, deleteUsers,
         assertStage, updateStageIfAllowed, updateStage, isDirect, areAllKycDocumentsApproved,
         canActivateCompany, checkDates, At, Now
    <3>5. "removed twice" \in history'[c]
      BY <1>0, <3>3, <3>4, disconnectUsersDoes DEF Formed
    <3> QED BY <3>5 DEF Accounted
  <2>2. CASE Now(w).do # "unlink"
    <3>1. job[w].todo # RemovalSteps
      BY <1>0, <1>3, <1>4, <2>2
    <3>2. h = w
      BY <1>8, <3>1 DEF Holds
    <3>3. /\ job[w].st = "linked"
          /\ \/ stage[c] # Gone /\ job[w].todo \in {A, B}
             \/ stage[c] = Gone /\ job[w].todo = C
          /\ \A v \in Worker \ {w} : OnRemoval(v, c) => job[v].todo = RemovalSteps
      BY <1>8, <3>2 DEF Holds, A, B, C
    <3>4. ASSUME job'[w].todo # <<>>,
                 \/ stage'[c] # Gone /\ job'[w].todo \in {A, B}
                 \/ stage'[c] = Gone /\ job'[w].todo = C
          PROVE  Accounted(c)'
      <4>1. Holds(w, c)'
        BY <1>0, <1>2, <3>3, <3>4 DEF Holds, OnRemoval, A, B, C
      <4> QED BY <4>1 DEF Accounted
    <3>5. CASE Now(w).do = "files"
      <4>1. deleteFiles(w)
        BY <3>5 DEF Step, ReadVersion, PutObject, InsertRow,
           writeStage, UpdateStatus, saveProfile, disconnectUsers, deleteClientProfile,
           deleteUsers, assertStage, updateStageIfAllowed, updateStage, isDirect,
           areAllKycDocumentsApproved, canActivateCompany, checkDates, At, Now
      <4>2. stage' = stage /\ job'[w].todo = B
        BY <1>3, <3>5, <4>1, deleteFilesDoes DEF Formed
      <4> QED BY <1>3, <1>4, <3>3, <3>4, <3>5, <4>2
    <3>6. CASE Now(w).do = "drop"
      <4>1. deleteClientProfile(w)
        BY <3>6 DEF Step, ReadVersion, PutObject, InsertRow,
           writeStage, UpdateStatus, saveProfile, disconnectUsers, deleteFiles,
           deleteUsers, assertStage, updateStageIfAllowed, updateStage, isDirect,
           areAllKycDocumentsApproved, canActivateCompany, checkDates, At, Now
      <4>2. stage[c] # Gone
        BY <1>3, <1>4, <3>3, <3>6
      <4>3. stage'[c] = Gone /\ job'[w].todo = C
        BY <1>0, <1>3, <3>6, <4>1, <4>2, deleteClientProfileDoes DEF Formed
      <4> QED BY <1>4, <3>4, <4>3
    <3>7. CASE Now(w).do = "users"
      <4>1. deleteUsers(w)
        BY <3>7 DEF Step, ReadVersion, PutObject, InsertRow,
           writeStage, UpdateStatus, saveProfile, disconnectUsers, deleteFiles,
           deleteClientProfile, assertStage, updateStageIfAllowed, updateStage, isDirect,
           areAllKycDocumentsApproved, canActivateCompany, checkDates, At, Now
      <4>2. login'[c] = "deleted"
        BY <1>0, <3>3, <4>1, deleteUsersDoes DEF Formed
      <4> QED BY <4>2 DEF Accounted
    <3> QED BY <1>0, <2>2, <3>5, <3>6, <3>7
  <2> QED BY <2>1, <2>2
<1> QED BY <1>5, <1>6, <1>7, <1>8 DEF Accounted

LEMMA AccountedGoesOn ==
  ASSUME NEW w \in Worker, Formed, NEW c \in Company, Accounted(c), Form(job[w]), Went(w),
         Step(w)
  PROVE  Accounted(c)'
<1>1. CASE OnRemoval(w, c)
  BY <1>1, AccountedRemoves
<1>2. CASE ~OnRemoval(w, c)
  <2>1. ~OnRemoval(w, c)'
    BY <1>2 DEF OnRemoval, Went, Idle
  <2>2. \A v \in Worker \ {w} : job'[v] = job[v]
    BY DEF Went
  <2>3. Now(w).do \in {"unlink", "drop", "users"} => job[w].co # c
    BY <1>2, HeadForms DEF OnRemoval, Went, Formed
  <2>4. login'[c] = login[c]
    BY <2>3, LoginsGoOn
  <2>5. stage'[c] = Gone <=> stage[c] = Gone
    <3>1. CASE deleteClientProfile(w)
      BY <2>3, <3>1, deleteClientProfileDoes DEF Formed
    <3>2. CASE ~deleteClientProfile(w)
      BY <3>2, StaysThere, GoneStays DEF Next
    <3> QED BY <3>1, <3>2
  <2>6. history[c] \subseteq history'[c]
    BY HistoryGrows DEF Next
  <2>7. \A v \in Worker : OnRemoval(v, c)' <=> OnRemoval(v, c)
    BY <1>2, <2>1, <2>2 DEF OnRemoval
  <2>8. \A v \in Worker : OnRemoval(v, c) =>
          job'[v].todo = job[v].todo /\ job'[v].st = job[v].st
    BY <1>2, <2>2
  <2> QED BY <2>4, <2>5, <2>6, <2>7, <2>8, AccountedStill
<1> QED BY <1>1, <1>2

LEMMA AccountedBegins ==
  ASSUME NEW w \in Worker, NEW b \in Company, Formed, NEW c \in Company, Accounted(c),
         Begun(w, b)
  PROVE  Accounted(c)'
<1>1. /\ UNCHANGED <<stage, login, history>> /\ ~OnRemoval(w, c)
      /\ \A v \in Worker \ {w} : job'[v] = job[v]
  BY DEF Begun, OnRemoval, Idle
<1>2. CASE ~OnRemoval(w, c)'
  <2>1. \A v \in Worker : OnRemoval(v, c)' <=> OnRemoval(v, c)
    BY <1>1, <1>2 DEF OnRemoval
  <2>2. \A v \in Worker : OnRemoval(v, c) =>
          job'[v].todo = job[v].todo /\ job'[v].st = job[v].st
    BY <1>1
  <2> QED BY <1>1, <2>1, <2>2, AccountedStill
<1>3. CASE OnRemoval(w, c)'
  <2>1. job'[w].todo = RemovalSteps /\ job'[w].st = login[c] /\ stage[c] # Gone
    BY <1>3 DEF OnRemoval, Begun
  <2>2. CASE history[c] \cap {"crashed", "removed twice"} # {} \/ login[c] = "deleted"
    BY <1>1, <2>2 DEF Accounted
  <2>3. CASE /\ login[c] = "linked" /\ stage[c] # Gone
             /\ \A v \in Worker : OnRemoval(v, c) =>
                  job[v].todo = RemovalSteps /\ job[v].st = "linked"
    <3>1. \A v \in Worker : OnRemoval(v, c)' =>
            job'[v].todo = RemovalSteps /\ job'[v].st = "linked"
      BY <1>1, <2>1, <2>3 DEF OnRemoval
    <3> QED BY <1>1, <2>3, <3>1 DEF Accounted
  <2>4. ASSUME NEW h \in Worker, Holds(h, c)
        PROVE  Holds(h, c)'
    <3>1. h # w
      BY <1>1, <2>4 DEF Holds
    <3>2. \A v \in Worker \ {h} : OnRemoval(v, c)' => job'[v].todo = RemovalSteps
      BY <1>1, <2>1, <2>4 DEF Holds, OnRemoval
    <3> QED BY <1>1, <2>4, <3>1, <3>2 DEF Holds, OnRemoval
  <2> QED BY <2>2, <2>3, <2>4 DEF Accounted
<1> QED BY <1>2, <1>3

\* A removal that nothing cuts short, and that is alone, leaves no account behind: whoever
\* unlinked the client still has it to delete (remove; NoStrayLogin).
THEOREM No_stray_login == Spec => []NoStrayLogin
<1>1. Formed /\ AllAccounted /\ [Next]_vars => AllAccounted'
  <2> SUFFICES ASSUME Formed, AllAccounted, [Next]_vars, NEW c \in Company
               PROVE  Accounted(c)'
    BY DEF AllAccounted
  <2>0. Accounted(c)
    BY DEF AllAccounted
  <2>1. ASSUME NEW w \in Worker, Step(w), Form(job[w]), Went(w)
        PROVE  Accounted(c)'
    BY <2>0, <2>1, AccountedGoesOn
  <2>2. ASSUME NEW w \in Worker, NEW b \in Company, Begun(w, b)
        PROVE  Accounted(c)'
    BY <2>0, <2>2, AccountedBegins
  <2>3. ASSUME NEW b \in Company, onPaymentConfirmed(b)
        PROVE  Accounted(c)'
    <3>1. UNCHANGED <<login, job, history>> /\ (stage'[c] = Gone <=> stage[c] = Gone)
      BY <2>3 DEF onPaymentConfirmed, Formed, IInv, Typed, Gone
    <3>2. \A v \in Worker : OnRemoval(v, c)' <=> OnRemoval(v, c)
      BY <3>1 DEF OnRemoval
    <3> QED BY <2>0, <3>1, <3>2, AccountedStill
  <2>4. CASE Crash
    <3>1. "crashed" \in history'[c]
      BY <2>4 DEF Crash
    <3> QED BY <3>1 DEF Accounted
  <2>5. CASE UNCHANGED vars
    <3>1. \A v \in Worker : OnRemoval(v, c)' <=> OnRemoval(v, c)
      BY <2>5 DEF OnRemoval, vars
    <3> QED BY <2>0, <2>5, <3>1, AccountedStill DEF vars
  <2> QED BY <2>1, <2>2, <2>3, <2>4, <2>5, Kinds
<1>2. Init => AllAccounted
  <2> SUFFICES ASSUME Init, NEW c \in Company PROVE Accounted(c)
    BY DEF AllAccounted
  <2>1. login[c] = "linked" /\ \A v \in Worker : ~OnRemoval(v, c)
    BY DEF Init, OnRemoval, Idle
  <2>2. stage[c] # Gone
    BY DEF Init, Gone
  <2> QED BY <2>1, <2>2 DEF Accounted
<1>3. AllAccounted => NoStrayLogin
  <2> SUFFICES ASSUME AllAccounted, NEW c \in Company, stage[c] = Gone, Removing(c) = {},
                      history[c] \cap {"crashed", "removed twice"} = {}
               PROVE  login[c] = "deleted"
    BY DEF NoStrayLogin
  <2>1. \A h \in Worker : ~Holds(h, c)
    BY DEF Removing, Holds, OnRemoval
  <2> QED BY <2>1 DEF AllAccounted, Accounted
<1> QED BY <1>1, <1>2, <1>3, Forming, PTL DEF Spec

-----------------------------------------------------------------------------
(* The lock of an active company.                                          *)

Locked ==
  \A w \in Worker : \A c \in Company :
    job[w].late /\ job[w].co = c =>
      \/ "reopened" \in history[c]
      \/ stage[c] = Gone
      \/ stage[c] = "ACTIVE" /\ LateForm(job[w])

LEMMA ActiveStays ==
  ASSUME Formed, [Next]_vars, NEW c \in Company, stage[c] = "ACTIVE"
  PROVE  stage'[c] \in {"ACTIVE", Gone} \/ "reopened" \in history'[c]
<1>1. ASSUME NEW w \in Worker, Step(w), Form(job[w])
      PROVE  stage'[c] \in {"ACTIVE", Gone} \/ "reopened" \in history'[c]
  <2>1. CASE writeStage(w) \/ saveProfile(w)
    <3>1. CASE c # job[w].co
      BY <1>1, <2>1, <3>1, StageWritten DEF Formed
    <3>2. CASE c = job[w].co
      <4>1. \/ stage'[c] = stage[c] \/ stage'[c] = Gone
            \/ stage'[c] = Now(w).to /\ Moved(w, Now(w).to) \subseteq history'[c]
        BY <1>1, <2>1, <3>2, StageWritten DEF Formed
      <4> QED BY <3>2, <4>1 DEF Moved
    <3> QED BY <3>1, <3>2
  <2>2. CASE deleteClientProfile(w)
    BY <2>2, deleteClientProfileDoes DEF Formed
  <2>3. CASE ~(writeStage(w) \/ saveProfile(w) \/ deleteClientProfile(w))
    BY <1>1, <2>3, StagesGoOn
  <2> QED BY <2>1, <2>2, <2>3
<1>2. ASSUME NEW b \in Company, onPaymentConfirmed(b)
      PROVE  stage'[c] = "ACTIVE"
  BY <1>2 DEF onPaymentConfirmed, Formed, IInv, Typed
<1> QED BY <1>1, <1>2, Kinds DEF Begun, Crash, vars

\* After a step of an upload the rest of it is left, or what follows it.
LEMMA UploadLeft ==
  ASSUME NEW w \in Worker, NEW T, job[w].todo \in Uploading(T)
  PROVE  Rest(w) \in Uploading(T) \cup T
BY UploadsGoOn, FormsApart DEF Rest, Uploading, ByServer, Presigned

\* What a late request has left stays calm as long as its company is active.
LEMMA LateGoesOn ==
  ASSUME NEW w \in Worker, Formed, Form(job[w]), Went(w), Step(w),
         LateForm(job[w]), stage[job[w].co] = "ACTIVE", job'[w].todo # <<>>
  PROVE  LateForm(job'[w])
<1>0. /\ job[w].todo # <<>> /\ job'[w].op = job[w].op /\ job'[w].d = job[w].d
  BY DEF Went
<1>1. CASE job[w].op = "remove"
  BY <1>0, <1>1 DEF LateForm
<1>2. CASE job[w].todo \in Seq(Calm)
  <2>1. Now(w) \in Calm /\ Rest(w) \in Seq(Calm)
    BY <1>0, <1>2, CalmLists DEF Now, Rest
  <2>2. Now(w).do \in {"move", "save"}
    BY <2>1 DEF Calm
  <2>3. job'[w].todo = Rest(w)
    <3>1. CASE Now(w).do = "save"
      BY <3>1 DEF Went
    <3>2. CASE Now(w).do = "move"
      <4>1. Now(w).from \subseteq Stage \ {"ACTIVE"}
        BY <2>1, <3>2 DEF Calm
      <4>2. updateStageIfAllowed(w)
        BY <3>2 DEF Step, ReadVersion, PutObject, InsertRow, writeStage, UpdateStatus,
           saveProfile, disconnectUsers, deleteFiles, deleteClientProfile, deleteUsers,
           assertStage, updateStage, isDirect, areAllKycDocumentsApproved,
           canActivateCompany, checkDates, At, Now
      <4>3. Continue(w, Rest(w))
        BY <4>1, <4>2 DEF updateStageIfAllowed
      <4> QED BY <1>0, <4>3, Goes DEF Formed
    <3> QED BY <2>2, <3>1, <3>2
  <2> QED BY <2>1, <2>3 DEF LateForm
<1>3. CASE job[w].todo \in Uploading(Seq(Calm)) /\ TypeOf[job[w].d] \in FinalTypes
  <2>1. job'[w].todo = Rest(w)
    BY <1>3, LeftOf DEF Formed
  <2>2. Rest(w) \in Uploading(Seq(Calm)) \cup Seq(Calm)
    BY <1>3, UploadLeft
  <2> QED BY <1>0, <1>3, <2>1, <2>2 DEF LateForm
<1> QED BY <1>1, <1>2, <1>3 DEF LateForm

LEMMA LockedKept ==
  ASSUME Formed, Locked, [Next]_vars
  PROVE  Locked'
<1> SUFFICES ASSUME NEW w \in Worker, NEW c \in Company, job'[w].late, job'[w].co = c
             PROVE  \/ "reopened" \in history'[c]
                    \/ stage'[c] = Gone
                    \/ stage'[c] = "ACTIVE" /\ LateForm(job'[w])
  BY DEF Locked
<1>1. CASE job'[w] = job[w]
  BY <1>1, GoneStays, ActiveStays, HistoryGrows DEF Locked
<1>2. ASSUME job'[w] # job[w], Step(w), Form(job[w]), Went(w)
      PROVE  \/ "reopened" \in history'[c]
             \/ stage'[c] = Gone
             \/ stage'[c] = "ACTIVE" /\ LateForm(job'[w])
  <2>1. job'[w].todo # <<>>
    BY <1>2 DEF Went, Idle
  <2>2. job[w].co = c /\ job[w].late
    BY <1>2, <2>1 DEF Went
  <2> QED BY <1>2, <2>1, <2>2, GoneStays, ActiveStays, HistoryGrows, LateGoesOn DEF Locked
<1>3. ASSUME NEW b \in Company, Begun(w, b)
      PROVE  stage'[c] = "ACTIVE" /\ LateForm(job'[w])
  BY <1>3 DEF Begun
<1>4. Crash => ~job'[w].late
  BY DEF Crash, Idle
<1>5. ASSUME NEW v \in Worker, v # w, Went(v) \/ \E b \in Company : Begun(v, b)
      PROVE  job'[w] = job[w]
  BY <1>5 DEF Went, Begun
<1> QED BY <1>1, <1>2, <1>3, <1>4, <1>5, Kinds DEF onPaymentConfirmed, vars

\* What such a request may still do to its company.
LEMMA LateSteps ==
  ASSUME NEW w \in Worker, Formed, Form(job[w]), Went(w), Step(w), NEW c \in Company,
         LateForm(job[w]), c = job[w].co, stage[c] # Gone, stage'[c] # Gone
  PROVE  stage'[c] = stage[c] /\ LockedRows(c)' = LockedRows(c)
<1>0. job[w].todo # <<>>
  BY DEF Went
<1>f. /\ Now(w).do \in {"write", "save"} => job[w].todo \in Seq(Calm)
      /\ Now(w).do = "row" => TypeOf[job[w].d] \in FinalTypes
      /\ Now(w).do # "status"
  <2>1. CASE job[w].op = "remove"
    BY <1>0, <2>1, HeadForms DEF Formed, TameDo
  <2>2. CASE job[w].todo \in Seq(Calm)
    <3>1. Now(w) \in Calm
      BY <1>0, <2>2, CalmLists DEF Now
    <3> QED BY <2>2, <3>1 DEF Calm
  <2>3. CASE job[w].todo \in Uploading(Seq(Calm)) /\ TypeOf[job[w].d] \in FinalTypes
    BY <2>3, FormsApart DEF Now
  <2> QED BY <2>1, <2>2, <2>3 DEF LateForm
<1>1. ASSUME stage' = stage, row' = row
      PROVE  stage'[c] = stage[c] /\ LockedRows(c)' = LockedRows(c)
  BY <1>1 DEF LockedRows, DocsOf, Present
<1>2. CASE InsertRow(w)
  <2>1. Now(w).do = "row" /\ stage' = stage
    BY <1>2, InsertRowDoes DEF Formed
  <2>2. CASE row' = row
    BY <1>1, <2>1, <2>2
  <2>3. CASE row' # row
    <3>1. /\ Present' = Present \cup {job[w].d} /\ \A e \in Present : row'[e] = row[e]
      BY <1>2, <2>3, InsertRowDoes DEF Formed
    <3>2. TypeOf[job[w].d] \notin LockedTypes
      BY <1>f, <2>1 DEF LockedTypes, KycTypes, FinalTypes
    <3> DEFINE D == {e \in DocsOf(c) : TypeOf[e] \in LockedTypes}
    <3>3. D' = D /\ \A e \in D : row'[e] = row[e]
      BY <3>1, <3>2 DEF DocsOf
    <3>4. LockedRows(c) = {<<d, row[d]>> : d \in D} /\ LockedRows(c)' = {<<d, row'[d]>> : d \in D'}
      BY DEF LockedRows
    <3> HIDE DEF D
    <3> QED BY <2>1, <3>3, <3>4
  <2> QED BY <2>2, <2>3
<1>3. CASE writeStage(w) \/ saveProfile(w)
  <2>1. job[w].todo \in Seq(Calm)
    BY <1>3, <1>f, StageWritten DEF Formed
  <2>2. Now(w) \in Calm
    BY <1>0, <2>1, CalmLists DEF Now
  <2>3. Now(w).to = "same" \/ Now(w).do = "move"
    BY <2>2 DEF Calm
  <2>4. "same" \notin Later
    BY DEF Later, Stage
  <2>5. stage'[c] = stage[c] /\ row' = row
    BY <1>3, <2>3, <2>4, StageWritten DEF Formed
  <2> QED BY <2>5 DEF LockedRows, DocsOf, Present
<1>4. CASE deleteClientProfile(w)
  BY <1>4, deleteClientProfileDoes DEF Formed
<1>5. CASE UpdateStatus(w)
  BY <1>5, <1>f, UpdateStatusDoes DEF Formed
<1>6. CASE Looks(w)
  BY <1>1, <1>6, Looking DEF Quiet, Formed
<1>7. CASE ReadVersion(w) \/ PutObject(w) \/ disconnectUsers(w) \/ deleteFiles(w) \/ deleteUsers(w)
  BY <1>1, <1>7 DEF ReadVersion, PutObject, disconnectUsers, deleteFiles, deleteUsers
<1> QED BY <1>2, <1>3, <1>4, <1>5, <1>6, <1>7 DEF Step, Looks

\* A request that comes when its company is active changes neither its stage nor its locked
\* documents, unless the company was reopened by one that had passed its checks before
\* (assertNotActive, updateStageIfAllowed, canTransition; LockedUnlessRaced).
THEOREM Locked_unless_raced == Spec => LockedUnlessRaced
<1>1. Formed /\ Locked /\ [Next]_vars => Locked'
  BY LockedKept
<1>2. Init => Locked
  BY DEF Init, Locked, Idle
<1>3. Formed /\ Locked /\ [Next]_vars =>
        [\A w \in Worker, c \in Company :
           /\ job[w].co = c /\ job[w].late /\ job'[w] # job[w]
           /\ "reopened" \notin history[c] /\ stage[c] # Gone /\ stage'[c] # Gone
           => stage'[c] = stage[c] /\ LockedRows(c)' = LockedRows(c)]_vars
  <2> SUFFICES ASSUME Formed, Locked, Next, NEW w \in Worker, NEW c \in Company,
                      job[w].co = c, job[w].late, job'[w] # job[w],
                      "reopened" \notin history[c], stage[c] # Gone, stage'[c] # Gone
               PROVE  stage'[c] = stage[c] /\ LockedRows(c)' = LockedRows(c)
    OBVIOUS
  <2>1. stage[c] = "ACTIVE" /\ LateForm(job[w])
    BY DEF Locked
  <2>2. ASSUME NEW v \in Worker, Step(v), Form(job[v]), Went(v)
        PROVE  stage'[c] = stage[c] /\ LockedRows(c)' = LockedRows(c)
    <3>1. v = w
      BY <2>2 DEF Went
    <3> QED BY <2>1, <2>2, <3>1, LateSteps
  <2>3. ASSUME NEW v \in Worker, NEW b \in Company, Begun(v, b)
        PROVE  FALSE
    BY <2>3 DEF Begun, Idle
  <2>4. ASSUME NEW b \in Company, onPaymentConfirmed(b)
        PROVE  FALSE
    BY <2>4 DEF onPaymentConfirmed
  <2>5. CASE Crash
    BY <2>5 DEF Crash, LockedRows, DocsOf, Present
  <2> QED BY <2>2, <2>3, <2>4, <2>5, Kinds
<1> QED BY <1>1, <1>2, <1>3, Forming, PTL DEF Spec, LockedUnlessRaced

-----------------------------------------------------------------------------
(* KYC documents.                                                          *)

Noted(c) == history[c] \cap {"sent back", "crashed"} # {}
HasKyc(c) == \E d \in DocsOf(c) : TypeOf[d] \in KycTypes
OnKyc(w, c) == job[w].op = "kyc" /\ job[w].co = c
Reviewed ==
  \A c \in Company :
    /\ stage[c] = "PAYMENT_CONFIRMED" => Noted(c)
    /\ stage[c] = "PAYMENT_PENDING" => ~HasKyc(c) /\ \A w \in Worker : ~OnKyc(w, c)
    /\ stage[c] = "KYC_IN_PROGRESS" /\ HasKyc(c) =>
         Noted(c) \/ \E w \in Worker : OnKyc(w, c)

\* What a request with KYC documents writes, and when it ends.
LEMMA KycWrites ==
  ASSUME NEW w \in Worker, Formed, Form(job[w]), job[w].todo # <<>>, job[w].op = "kyc",
         Now(w).do \in {"write", "save"}
  PROVE  \/ Now(w).to = "KYC_IN_PROGRESS" /\ Rest(w) # <<>>
         \/ Now(w).to = "KYC_REVIEW"
<1>1. job[w].todo \in KycLeft
  BY FormsApart DEF Form, Now
<1> DEFINE move == moveToKycReviewAfterUpload
           a == <<Write("KYC_IN_PROGRESS"), move>>
           b == <<Write("KYC_REVIEW")>>
<1>2. Head(a) = Write("KYC_IN_PROGRESS") /\ Tail(a) # <<>> /\ Head(b) = Write("KYC_REVIEW")
  OBVIOUS
<1>3. Head(KycMoves).do = "move" /\ Head(<<move>>).do = "move"
  BY DEF KycMoves, onKycUploaded, moveToKycReviewAfterUpload, Move
<1>4. KycLeft = {KycMoves, a, <<move>>, b}
  BY DEF KycLeft
<1>5. Write("KYC_IN_PROGRESS").to = "KYC_IN_PROGRESS" /\ Write("KYC_REVIEW").to = "KYC_REVIEW"
  BY DEF Write
<1> HIDE DEF a, b, move
<1> QED BY <1>1, <1>2, <1>3, <1>4, <1>5 DEF Now, Rest

LEMMA KycStays ==
  ASSUME NEW w \in Worker, Formed, Form(job[w]), Went(w), Step(w), job[w].op = "kyc",
         stage[job[w].co] = "KYC_IN_PROGRESS", stage'[job[w].co] = "KYC_IN_PROGRESS"
  PROVE  job'[w].todo # <<>>
<1>0. job[w].todo # <<>> /\ job[w].co \in Company
  BY DEF Went
<1>s. "KYC_IN_PROGRESS" # Gone
  BY DEF Gone
<1>1. CASE Now(w).do \in {"version", "put", "row"}
  <2>1. job[w].todo \in Uploading({KycMoves})
    <3>1. job[w].todo \notin KycLeft
      <4>1. KycLeft \subseteq Seq(Tame)
        BY TameLists, TameMoves, TameTyped, LaterNamed DEF KycLeft
      <4> QED BY <1>0, <1>1, <4>1, FormsApart DEF Now
    <3> QED BY <3>1 DEF Form
  <2>2. Rest(w) # <<>>
    <3>1. Rest(w) \in Uploading({KycMoves}) \cup {KycMoves}
      BY <2>1, UploadLeft
    <3> QED BY <3>1, FormsApart DEF KycMoves
  <2>3. ReadVersion(w) \/ PutObject(w) \/ InsertRow(w)
    BY <1>1 DEF Step, writeStage, UpdateStatus, saveProfile, disconnectUsers, deleteFiles,
       deleteClientProfile, deleteUsers, assertStage, updateStageIfAllowed, updateStage,
       isDirect, areAllKycDocumentsApproved, canActivateCompany, checkDates, At, Now
  <2>4. job'[w].todo = Rest(w)
    BY <1>s, <2>3, VersionsRead, PutObjectDoes, InsertRowDoes DEF Formed
  <2> QED BY <2>2, <2>4
<1>2. CASE Now(w).do \in {"write", "save"}
  <2>1. (Now(w).to = "KYC_IN_PROGRESS" /\ Rest(w) # <<>>) \/ Now(w).to = "KYC_REVIEW"
    BY <1>0, <1>2, KycWrites
  <2>2. writeStage(w) \/ saveProfile(w)
    BY <1>2 DEF Step, ReadVersion, PutObject, InsertRow, UpdateStatus, disconnectUsers,
       deleteFiles, deleteClientProfile, deleteUsers, assertStage, updateStageIfAllowed,
       updateStage, isDirect, areAllKycDocumentsApproved, canActivateCompany, checkDates,
       At, Now
  <2>3. stage'[job[w].co] = Now(w).to /\ job'[w].todo = Rest(w)
    BY <1>s, <2>1, <2>2, StageWritten DEF Formed
  <2> QED BY <2>1, <2>3
<1>3. CASE Now(w).do \notin {"version", "put", "row", "write", "save"}
  <2> DEFINE move == moveToKycReviewAfterUpload
  <2>1. job[w].todo \in {KycMoves, <<move>>}
    <3>1. job[w].todo \in KycLeft
      BY <1>0, <1>3, FormsApart DEF Form, Now
    <3>2. /\ Head(<<Write("KYC_IN_PROGRESS"), move>>).do = "write"
          /\ Head(<<Write("KYC_REVIEW")>>).do = "write"
      BY DEF Write
    <3> QED BY <1>3, <3>1, <3>2 DEF KycLeft, Now
  <2>2. Now(w).do = "move"
    BY <2>1 DEF KycMoves, onKycUploaded, moveToKycReviewAfterUpload, Move, Now
  <2>3. updateStageIfAllowed(w)
    BY <2>2 DEF Step, ReadVersion, PutObject, InsertRow, writeStage, UpdateStatus,
       saveProfile, disconnectUsers, deleteFiles, deleteClientProfile, deleteUsers,
       assertStage, updateStage, isDirect, areAllKycDocumentsApproved,
       canActivateCompany, checkDates, At, Now
  <2>4. Write(Now(w).to) \in AStep /\ Rest(w) \in Seq(AStep)
    BY <1>0, <2>2, Heads, StepsTyped DEF Formed, IInv
  <2>5. <<Write(Now(w).to)>> \o Rest(w) # <<>>
    BY <2>4, Peel
  <2>6. CASE job[w].todo = KycMoves
    <3>1. Rest(w) # <<>>
      BY <2>6 DEF KycMoves, Rest
    <3>2. Continue(w, Rest(w)) \/ Continue(w, <<Write(Now(w).to)>> \o Rest(w))
      BY <2>3 DEF updateStageIfAllowed
    <3>3. job'[w].todo \in {Rest(w), <<Write(Now(w).to)>> \o Rest(w)}
      BY <1>0, <3>2, Goes DEF Formed
    <3> QED BY <2>5, <3>1, <3>3
  <2>7. CASE job[w].todo = <<move>>
    <3>1. Now(w) = move
      BY <2>7 DEF Now
    <3>2. "KYC_IN_PROGRESS" \in Now(w).from /\ CanTransition("KYC_IN_PROGRESS", Now(w).to)
      BY <3>1 DEF moveToKycReviewAfterUpload, Move, CanTransition, AllowedTransitions
    <3>3. Continue(w, <<Write(Now(w).to)>> \o Rest(w))
      BY <2>3, <3>2 DEF updateStageIfAllowed
    <3>4. job'[w].todo = <<Write(Now(w).to)>> \o Rest(w)
      BY <1>0, <3>3, Goes DEF Formed
    <3> QED BY <2>5, <3>4
  <2> QED BY <2>1, <2>6, <2>7
<1> QED BY <1>1, <1>2, <1>3

\* KYC documents are new only by an upload that will report them.
LEMMA KycRows ==
  ASSUME NEW w \in Worker, Formed, Form(job[w]), Went(w), Step(w), NEW c \in Company,
         HasKyc(c)', ~HasKyc(c)
  PROVE  /\ job[w].co = c /\ job[w].op = "kyc" /\ stage' = stage
<1>1. CASE RowsKept
  <2>1. DocsOf(c)' = DocsOf(c)
    BY <1>1 DEF RowsKept, SameRow, DocsOf
  <2> QED BY <2>1 DEF HasKyc
<1>2. CASE deleteClientProfile(w)
  <2>1. DocsOf(c)' \subseteq DocsOf(c)
    <3>1. CASE row' = row
      BY <3>1 DEF DocsOf, Present
    <3>2. CASE row' # row
      <4>1. Present' \subseteq Present /\ \A d \in Present' : row'[d] = row[d]
        BY <1>2, <3>2, deleteClientProfileDoes DEF Formed
      <4> QED BY <4>1 DEF DocsOf
    <3> QED BY <3>1, <3>2
  <2> QED BY <2>1 DEF HasKyc
<1>3. CASE InsertRow(w)
  <2>1. PICK d \in DocsOf(c)' : TypeOf[d] \in KycTypes
    BY DEF HasKyc
  <2>2. d \notin DocsOf(c)
    BY <2>1 DEF HasKyc
  <2>3. row' # row
    BY <2>1, <2>2 DEF DocsOf, Present
  <2> DEFINE new == [co |-> job[w].co, version |-> job[w].ver, status |-> job[w].st,
                     known |-> job[w].known, by |-> Now(w).by]
  <2>4. /\ Now(w).do = "row" /\ stage' = stage
        /\ Present' = Present \cup {job[w].d} /\ \A e \in Present : row'[e] = row[e]
        /\ job[w].d \notin Present => row'[job[w].d] = new
    BY <1>3, <2>3, InsertRowDoes DEF Formed
  <2>5. new.co = job[w].co
    OBVIOUS
  <2> HIDE DEF new
  <2>6. d = job[w].d /\ job[w].co = c
    BY <2>1, <2>2, <2>4, <2>5 DEF DocsOf
  <2>7. job[w].todo \in Uploading(Seq(Tame))
    BY <2>4, HeadForms DEF Formed, Went
  <2> QED BY <2>1, <2>4, <2>6, <2>7 DEF Form
<1> QED BY <1>1, <1>2, <1>3, RowsGoOn

LEMMA ReviewedGoesOn ==
  ASSUME NEW w \in Worker, Formed, Reviewed, Form(job[w]), Went(w), Step(w), NEW c \in Company
  PROVE  /\ stage'[c] = "PAYMENT_CONFIRMED" => Noted(c)'
         /\ stage'[c] = "PAYMENT_PENDING" => ~HasKyc(c)' /\ \A v \in Worker : ~OnKyc(v, c)'
         /\ stage'[c] = "KYC_IN_PROGRESS" /\ HasKyc(c)' =>
              Noted(c)' \/ \E v \in Worker : OnKyc(v, c)'
<1>0. /\ Noted(c) => Noted(c)'
      /\ job[w].todo # <<>> /\ \A v \in Worker \ {w} : job'[v] = job[v]
      /\ job'[w].todo # <<>> => job'[w].op = job[w].op /\ job'[w].co = job[w].co
      /\ job'[w].todo = <<>> => job'[w] = Idle
  BY HistoryGrows DEF Noted, Next, Went
<1>1. \A v \in Worker : OnKyc(v, c)' => OnKyc(v, c)
  BY <1>0 DEF OnKyc, Idle
<1>2. CASE stage'[c] # stage[c]
  <2>1. c = job[w].co /\ stage'[c] \in Later \cup {Gone} /\ stage[c] # Gone
    BY <1>2, StagesGoOn
  <2>2. stage'[c] # "PAYMENT_PENDING"
    BY <2>1 DEF Later, Gone
  <2>3. SUFFICES ASSUME stage'[c] \in {"PAYMENT_CONFIRMED", "KYC_IN_PROGRESS"}
                 PROVE  \/ Noted(c)'
                        \/ stage'[c] = "KYC_IN_PROGRESS" /\ OnKyc(w, c)'
    BY <2>2
  <2>4. writeStage(w) \/ saveProfile(w)
    BY <1>2, <2>1, <2>3, StagesGoOn, deleteClientProfileDoes DEF Formed, Gone
  <2>5. /\ stage'[c] = Now(w).to /\ Moved(w, Now(w).to) \subseteq history'[c]
        /\ job'[w].todo = Rest(w) /\ Now(w).do \in {"write", "save"}
    BY <1>2, <2>1, <2>4, StageWritten DEF Formed
  <2>6. CASE job[w].op # "kyc"
    <3>1. "sent back" \in history'[c]
      BY <2>3, <2>5, <2>6 DEF Moved
    <3> QED BY <3>1 DEF Noted
  <2>7. CASE job[w].op = "kyc"
    <3>1. Now(w).to = "KYC_IN_PROGRESS" /\ Rest(w) # <<>>
      BY <1>0, <2>3, <2>5, <2>7, KycWrites
    <3> QED BY <1>0, <2>1, <2>5, <2>7, <3>1 DEF OnKyc
  <2> QED BY <2>6, <2>7
<1>3. CASE stage'[c] = stage[c]
  <2>1. stage'[c] = "PAYMENT_CONFIRMED" => Noted(c)'
    BY <1>0, <1>3 DEF Reviewed
  <2>2. stage'[c] = "PAYMENT_PENDING" => ~HasKyc(c)' /\ \A v \in Worker : ~OnKyc(v, c)'
    BY <1>1, <1>3, KycRows DEF Reviewed, OnKyc
  <2>3. ASSUME stage[c] = "KYC_IN_PROGRESS", HasKyc(c)', ~Noted(c)'
        PROVE  \E v \in Worker : OnKyc(v, c)'
    <3>1. PICK v \in Worker : OnKyc(v, c)
      BY <1>0, <2>3, KycRows DEF Reviewed, OnKyc
    <3>2. CASE v # w
      BY <1>0, <3>1, <3>2 DEF OnKyc
    <3>3. CASE v = w
      <4>1. job'[w].todo # <<>>
        BY <1>3, <2>3, <3>1, <3>3, KycStays DEF OnKyc
      <4> QED BY <1>0, <3>1, <3>3, <4>1 DEF OnKyc
    <3> QED BY <3>2, <3>3
  <2> QED BY <1>3, <2>1, <2>2, <2>3
<1> QED BY <1>2, <1>3

\* KYC documents that are there are in review, unless their upload is still under way, or
\* somebody sent the company back, or the process died: whatever uploads, reviews and other
\* requests interleave (KycMoves, updateStageIfAllowed; UploadedKycIsInReview).
THEOREM Uploaded_kyc_is_in_review == Spec => []UploadedKycIsInReview
<1>1. Formed /\ Reviewed /\ [Next]_vars => Reviewed'
  <2> SUFFICES ASSUME Formed, Reviewed, [Next]_vars, NEW c \in Company
               PROVE  /\ stage'[c] = "PAYMENT_CONFIRMED" => Noted(c)'
                      /\ stage'[c] = "PAYMENT_PENDING" =>
                           ~HasKyc(c)' /\ \A v \in Worker : ~OnKyc(v, c)'
                      /\ stage'[c] = "KYC_IN_PROGRESS" /\ HasKyc(c)' =>
                           Noted(c)' \/ \E v \in Worker : OnKyc(v, c)'
    BY DEF Reviewed
  <2>1. ASSUME NEW w \in Worker, Step(w), Form(job[w]), Went(w)
        PROVE  /\ stage'[c] = "PAYMENT_CONFIRMED" => Noted(c)'
               /\ stage'[c] = "PAYMENT_PENDING" =>
                    ~HasKyc(c)' /\ \A v \in Worker : ~OnKyc(v, c)'
               /\ stage'[c] = "KYC_IN_PROGRESS" /\ HasKyc(c)' =>
                    Noted(c)' \/ \E v \in Worker : OnKyc(v, c)'
    BY <2>1, ReviewedGoesOn
  <2>2. ASSUME NEW w \in Worker, NEW b \in Company, Begun(w, b)
        PROVE  /\ stage' = stage /\ Noted(c)' = Noted(c) /\ HasKyc(c)' = HasKyc(c)
               /\ \A v \in Worker : OnKyc(v, c) => OnKyc(v, c)'
               /\ \A v \in Worker : OnKyc(v, c)' => OnKyc(v, c) \/ stage[c] # "PAYMENT_PENDING"
    <3>1. /\ stage' = stage /\ history' = history /\ row' = row /\ job[w] = Idle
          /\ \A v \in Worker \ {w} : job'[v] = job[v]
          /\ job'[w].co = b /\ (job'[w].op = "kyc" => stage[b] # "PAYMENT_PENDING")
      BY <2>2 DEF Begun
    <3>2. ~OnKyc(w, c)
      BY <3>1 DEF OnKyc, Idle
    <3>3. HasKyc(c)' = HasKyc(c) /\ Noted(c)' = Noted(c)
      BY <3>1 DEF HasKyc, DocsOf, Present, Noted
    <3> QED BY <3>1, <3>2, <3>3 DEF OnKyc
  <2>3. ASSUME NEW b \in Company, onPaymentConfirmed(b)
        PROVE  /\ Noted(c)' = Noted(c) /\ HasKyc(c)' = HasKyc(c)
               /\ \A v \in Worker : OnKyc(v, c)' = OnKyc(v, c)
               /\ \/ stage'[c] = stage[c]
                  \/ stage[c] = "PAYMENT_PENDING" /\ stage'[c] = "KYC_IN_PROGRESS"
    <3>1. /\ UNCHANGED <<row, history, job>>
          /\ \/ stage'[c] = stage[c]
             \/ stage[c] = "PAYMENT_PENDING" /\ stage'[c] = "KYC_IN_PROGRESS"
      BY <2>3 DEF onPaymentConfirmed, Formed, IInv, Typed
    <3> QED BY <3>1 DEF HasKyc, DocsOf, Present, Noted, OnKyc
  <2>4. CASE Crash
    <3>1. Noted(c)' /\ stage' = stage /\ row' = row /\ \A v \in Worker : ~OnKyc(v, c)'
      BY <2>4 DEF Crash, Noted, OnKyc, Idle
    <3>2. HasKyc(c)' = HasKyc(c)
      BY <3>1 DEF HasKyc, DocsOf, Present
    <3> QED BY <3>1, <3>2 DEF Reviewed
  <2>5. CASE UNCHANGED vars
    BY <2>5 DEF Reviewed, HasKyc, DocsOf, Present, Noted, OnKyc, vars
  <2>6. CASE \E w \in Worker, b \in Company : Begun(w, b)
    BY <2>2, <2>6 DEF Reviewed
  <2>7. CASE \E b \in Company : onPaymentConfirmed(b)
    BY <2>3, <2>7 DEF Reviewed
  <2> QED BY <2>1, <2>4, <2>5, <2>6, <2>7, Kinds
<1>2. Init => Reviewed
  <2> SUFFICES ASSUME Init, NEW c \in Company
               PROVE  stage[c] \notin {"PAYMENT_CONFIRMED"} /\ ~HasKyc(c)
                      /\ \A w \in Worker : ~OnKyc(w, c)
    BY DEF Reviewed
  <2>1. stage[c] # "PAYMENT_CONFIRMED" /\ \A w \in Worker : ~OnKyc(w, c)
    BY DEF Init, OnKyc, Idle
  <2>2. Present \subseteq KycDocs
    BY DEF Init, Present
  <2>3. ~HasKyc(c)
    BY <2>2 DEF HasKyc, DocsOf, KycDocs, KycTypes
  <2> QED BY <2>1, <2>3
<1>3. Reviewed => UploadedKycIsInReview
  BY DEF Reviewed, UploadedKycIsInReview, Noted, HasKyc, OnKyc
<1> QED BY <1>1, <1>2, <1>3, Forming, PTL DEF Spec

=============================================================================
