---------------------------- MODULE RenewalsProofs ----------------------------
(***************************************************************************)
(* Proofs about Renewals: whatever happens to other companies while a      *)
(* night's run is at work, and whichever of its steps fail, the run does   *)
(* what it should with every company that it could handle and that did not *)
(* change under it.                                                        *)
(***************************************************************************)
EXTENDS Renewals, TLAPS

-----------------------------------------------------------------------------
(* The inductive invariant.                                                *)

\* What a run says of a company holds of those that it could handle and that are as
\* they were when its lists were read.
Unchanged == present \ past.changed
Handled   == Unchanged \ past.failed

InTodo(c) == \E row \in todo : row.co = c

Past == [changed : SUBSET Company, failed : SUBSET Company, mailed : SUBSET (Company \X Days),
         renewed : SUBSET Company, stale : SUBSET Company]

\* A company that was listed had a date, and a date is never taken away.
Typed == /\ TypeOK /\ past \in Past
         /\ \A row \in todo : renewalDate[row.co] # NoDate

\* The list is empty between two runs, and what has been mailed is forgotten with the night.
Phased ==
  /\ phase = "idle" => todo = {}
  /\ phase # "idle" => ran
  /\ ~ran => past.mailed = {}

\* The list's dates are still those of the companies that have not changed.
AsRead == \A row \in todo : row.co \in Unchanged => renewalDate[row.co] = row.date

\* A company that waits to be marked has lapsed, or has been activated meanwhile.
HeldRows ==
  phase = "expire" => \A row \in todo : row.co \in present \ past.stale
                                          => renewalDate[row.co] < day

\* A lapsed company is marked or still waits to be.
Marked ==
  ran => \A c \in Handled : renewalDate[c] # NoDate /\ Lapsed(c)
                              => phase = "expire" /\ InTodo(c)

\* A company whose day has come has its reminder or still waits for it.
Reminded ==
  ran /\ phase # "expire" =>
    \A c \in Handled : \A n \in REMINDER_DAYS_BY_CHANNEL[Channel[c]] :
      renewalDate[c] = day + n /\ c \notin Unmailable
        /\ <<c, n>> \notin reminder \cup past.mailed
      => phase = "remind" /\ InTodo(c)

\* What a company was told is so.
Told == \A m \in past.mailed : m[1] \in Unchanged => renewalDate[m[1]] = day + m[2]

IInv == Typed /\ Phased /\ AsRead /\ HeldRows /\ Marked /\ Reminded /\ Told /\ ExpiredIsPast

-----------------------------------------------------------------------------
(* What the actions note of the past.                                      *)

Noted(changed, failed, mailed, stale) ==
  /\ past' \in Past
  /\ past'.changed = changed /\ past'.failed = failed
  /\ past'.mailed = mailed /\ past'.stale = stale

LEMMA ActivateNotes ==
  ASSUME Typed, NEW c \in Company, NEW end, activateCompany(c, end)
  PROVE  \E S \in SUBSET Company :
           /\ Noted(past.changed \cup {c}, past.failed, past.mailed, S)
           /\ past.stale \subseteq S
           /\ (phase = "expire" /\ InTodo(c)) => c \in S
<1> DEFINE R == IF renewalDate[c] # NoDate THEN past.renewed \cup {c} ELSE past.renewed
           S == IF phase = "expire" /\ InTodo(c) THEN past.stale \cup {c} ELSE past.stale
           p == [past EXCEPT !.changed = past.changed \cup {c}]
           q == [p EXCEPT !.renewed = R]
<1>1. past \in Past
  BY DEF Typed
<1>2. R \in SUBSET Company /\ S \in SUBSET Company
  BY <1>1 DEF Past
<1>3. past' = [q EXCEPT !.stale = S]
  BY DEF activateCompany, InTodo
<1>4. past.stale \subseteq S /\ ((phase = "expire" /\ InTodo(c)) => c \in S)
  OBVIOUS
<1> HIDE DEF R, S
<1>5. p \in Past /\ p.changed = past.changed \cup {c} /\ p.failed = past.failed
        /\ p.mailed = past.mailed
  BY <1>1 DEF Past
<1> HIDE DEF p
<1>6. q \in Past /\ q.changed = past.changed \cup {c} /\ q.failed = past.failed
        /\ q.mailed = past.mailed
  BY <1>2, <1>5 DEF Past
<1> HIDE DEF q
<1>7. Noted(past.changed \cup {c}, past.failed, past.mailed, S)
  BY <1>2, <1>3, <1>6 DEF Past, Noted
<1> QED BY <1>2, <1>4, <1>7

LEMMA NightNotes ==
  ASSUME Typed, nextDay
  PROVE  Noted({}, {}, {}, past.stale)
<1> DEFINE p == [past EXCEPT !.changed = {}]
           q == [p EXCEPT !.failed = {}]
<1>1. past \in Past /\ past' = [q EXCEPT !.mailed = {}]
  BY DEF Typed, nextDay
<1>2. p \in Past /\ p.changed = {} /\ p.stale = past.stale
  BY <1>1 DEF Past
<1> HIDE DEF p
<1>3. q \in Past /\ q.changed = {} /\ q.failed = {} /\ q.stale = past.stale
  BY <1>2 DEF Past
<1> HIDE DEF q
<1> QED BY <1>1, <1>3 DEF Past, Noted

LEMMA OthersNote ==
  ASSUME Typed
  PROVE  /\ runDailyRenewalReminders => Noted({}, past.failed, past.mailed, past.stale)
         /\ findFails => Noted(past.changed, Company, past.mailed, past.stale)
         /\ \A c \in Company :
              remove(c) => Noted(past.changed \cup {c}, past.failed, past.mailed, past.stale)
         /\ \A r \in todo :
              /\ skipExpiration(r) \/ skipReminder(r) =>
                   Noted(past.changed, past.failed \cup {r.co}, past.mailed, past.stale)
              /\ processCompanyRenewalReminders(r) => \E n \in Due(r) :
                   Noted(past.changed, past.failed, past.mailed \cup {<<r.co, n>>}, past.stale)
<1>0. past \in Past
  BY DEF Typed
<1>1. runDailyRenewalReminders => Noted({}, past.failed, past.mailed, past.stale)
  BY <1>0 DEF runDailyRenewalReminders, Noted, Past
<1>2. findFails => Noted(past.changed, Company, past.mailed, past.stale)
  BY <1>0 DEF findFails, Noted, Past
<1>3. ASSUME NEW c \in Company, remove(c)
      PROVE  Noted(past.changed \cup {c}, past.failed, past.mailed, past.stale)
  BY <1>0, <1>3 DEF remove, Noted, Past
<1>4. ASSUME NEW r \in todo
      PROVE  r \in [co : Company, date : EndDate]
  BY DEF Typed, TypeOK
<1>5. ASSUME NEW r \in todo, skipExpiration(r) \/ skipReminder(r)
      PROVE  Noted(past.changed, past.failed \cup {r.co}, past.mailed, past.stale)
  <2>1. past' = [past EXCEPT !.failed = @ \cup {r.co}] /\ r.co \in Company
    BY <1>4, <1>5 DEF skipExpiration, skipReminder
  <2> QED BY <1>0, <2>1 DEF Noted, Past
<1>6. ASSUME NEW r \in todo, processCompanyRenewalReminders(r)
      PROVE  \E n \in Due(r) :
               Noted(past.changed, past.failed, past.mailed \cup {<<r.co, n>>}, past.stale)
  <2>1. PICK n \in Due(r) : past' = [past EXCEPT !.mailed = @ \cup {<<r.co, n>>}]
    BY <1>6 DEF processCompanyRenewalReminders
  <2>2. n \in Days /\ r.co \in Company
    BY <1>4, RenewalsAssumption DEF Due, REMINDER_DAYS_BY_CHANNEL, Days
  <2>3. <<r.co, n>> \in Company \X Days
    BY <2>2
  <2> QED BY <1>0, <2>1, <2>3 DEF Noted, Past
<1> QED BY <1>1, <1>2, <1>3, <1>5, <1>6

-----------------------------------------------------------------------------
(* Types.                                                                  *)

LEMMA Steps ==
  ASSUME [Next]_vars
  PROVE  \/ runDailyRenewalReminders \/ findUpcoming \/ findFails \/ runEnds \/ nextDay
         \/ \E row \in todo : \/ markExpired(row) \/ skipExpiration(row) \/ nothingDue(row)
                              \/ processCompanyRenewalReminders(row) \/ skipReminder(row)
         \/ \E c \in Company : remove(c) \/ \E end \in EndDate : activateCompany(c, end)
         \/ UNCHANGED vars
BY DEF Next, Run, Others

\* What is listed is a row for each of the companies that have a date.
LEMMA Lists ==
  ASSUME TypeOK, NEW S \in SUBSET Company
  PROVE  /\ Listed(S) \in SUBSET [co : Company, date : EndDate]
         /\ \A row \in Listed(S) : /\ row.co \in S /\ row.date = renewalDate[row.co]
                                    /\ row.date # NoDate
         /\ \A c \in S : renewalDate[c] # NoDate => \E row \in Listed(S) : row.co = c
<1>1. \A c \in Company : renewalDate[c] # NoDate => renewalDate[c] \in EndDate
  BY DEF TypeOK, Dates
<1>2. Listed(S) \in SUBSET [co : Company, date : EndDate]
  BY <1>1 DEF Listed
<1>3. \A row \in Listed(S) : /\ row.co \in S /\ row.date = renewalDate[row.co]
                              /\ row.date # NoDate
  BY DEF Listed
<1>4. ASSUME NEW c \in S, renewalDate[c] # NoDate
      PROVE  \E row \in Listed(S) : row.co = c
  <2>1. [co |-> c, date |-> renewalDate[c]] \in Listed(S)
    BY <1>4 DEF Listed
  <2> QED BY <2>1
<1> QED BY <1>2, <1>3, <1>4

LEMMA RowTyped ==
  ASSUME TypeOK, NEW row \in todo
  PROVE  /\ row.co \in Company /\ row.date \in EndDate /\ row.date \in Nat
         /\ Due(row) \subseteq Days
         /\ \A n \in Due(row) : <<row.co, n>> \in Company \X Days
<1>1. row \in [co : Company, date : EndDate]
  BY DEF TypeOK
<1>2. row.co \in Company /\ row.date \in EndDate /\ row.date \in Nat
  BY <1>1, RenewalsAssumption
<1>3. Due(row) \subseteq Days
  BY <1>2, RenewalsAssumption DEF Due, REMINDER_DAYS_BY_CHANNEL, Days
<1> QED BY <1>2, <1>3

LEMMA TypedKept ==
  ASSUME Typed, [Next]_vars
  PROVE  Typed'
<1> USE DEF Typed
<1>f. Fault => faults' \in 0..MaxFault
  BY RenewalsAssumption DEF Fault, TypeOK
<1>1. CASE runDailyRenewalReminders
  <2> DEFINE S == {c \in present : Lapsed(c)}
  <2>1. S \in SUBSET Company /\ todo' = Listed(S)
    BY <1>1 DEF runDailyRenewalReminders, TypeOK
  <2> HIDE DEF S
  <2>2. /\ todo' \in SUBSET [co : Company, date : EndDate]
        /\ \A row \in todo' : renewalDate[row.co] # NoDate
    BY <2>1, Lists
  <2> QED BY <1>1, <2>2, OthersNote DEF runDailyRenewalReminders, TypeOK, Noted
<1>2. CASE findUpcoming
  <2> DEFINE S == {c \in present : renewalDate[c] >= day}
  <2>1. S \in SUBSET Company /\ todo' = Listed(S)
    BY <1>2 DEF findUpcoming, TypeOK
  <2> HIDE DEF S
  <2>2. /\ todo' \in SUBSET [co : Company, date : EndDate]
        /\ \A row \in todo' : renewalDate[row.co] # NoDate
    BY <2>1, Lists
  <2> QED BY <1>2, <2>2 DEF findUpcoming, TypeOK
<1>3. CASE findFails
  BY <1>f, <1>3, OthersNote DEF findFails, TypeOK, Noted
<1>4. CASE runEnds
  BY <1>4 DEF runEnds, TypeOK
<1>5. CASE nextDay
  <2>1. day' \in 0..MaxDay
    BY <1>5, RenewalsAssumption DEF nextDay, TypeOK
  <2>2. faults' \in 0..MaxFault
    BY <1>f, <1>5 DEF nextDay, TypeOK
  <2>3. past' \in Past
    BY <1>5, NightNotes DEF Noted
  <2> QED BY <1>5, <2>1, <2>2, <2>3 DEF nextDay, TypeOK
<1>6. ASSUME NEW row \in todo, markExpired(row)
      PROVE  Typed'
  <2>1. row.co \in Company /\ renewalDate[row.co] \in Dates /\ row.date \in EndDate
    BY RowTyped DEF TypeOK
  <2>2. renewalStatus' \in [Company -> {"null", "ACTIVE", "EXPIRED"}]
    BY <1>6, <2>1 DEF markExpired, TypeOK
  <2> QED BY <1>6, <2>1, <2>2 DEF markExpired, TypeOK
<1>7. ASSUME NEW row \in todo, skipExpiration(row) \/ skipReminder(row)
      PROVE  Typed'
  <2>1. past' \in Past
    BY <1>7, OthersNote DEF Noted
  <2> QED BY <1>f, <1>7, <2>1 DEF skipExpiration, skipReminder, AfterFailure, TypeOK
<1>8. ASSUME NEW row \in todo, nothingDue(row)
      PROVE  Typed'
  BY <1>8 DEF nothingDue, Passed, TypeOK
<1>9. ASSUME NEW row \in todo, processCompanyRenewalReminders(row)
      PROVE  Typed'
  <2>1. past' \in Past
    BY <1>9, OthersNote DEF Noted
  <2>2. reminder' \subseteq Company \X Days /\ faults' \in 0..MaxFault
    BY <1>f, <1>9, RowTyped DEF processCompanyRenewalReminders, TypeOK
  <2> QED BY <1>9, <2>1, <2>2 DEF processCompanyRenewalReminders, Passed, TypeOK
<1>10. ASSUME NEW c \in Company, remove(c)
       PROVE  Typed'
  BY <1>10, OthersNote DEF remove, TypeOK, Noted
<1>11. ASSUME NEW c \in Company, NEW end \in EndDate, activateCompany(c, end)
       PROVE  Typed'
  <2>1. past' \in Past
    BY <1>11, ActivateNotes DEF Noted
  <2>2. end # NoDate
    BY RenewalsAssumption DEF NoDate
  <2> QED BY <1>11, <2>1, <2>2 DEF activateCompany, TypeOK, Dates
<1>12. CASE UNCHANGED vars
  BY <1>12 DEF vars, TypeOK
<1> QED BY <1>1, <1>2, <1>3, <1>4, <1>5, <1>6, <1>7, <1>8, <1>9, <1>10, <1>11, <1>12, Steps

-----------------------------------------------------------------------------
(* What holds between the lists and the rows.                              *)

LEMMA PhasedKept ==
  ASSUME Typed, Phased, [Next]_vars
  PROVE  Phased'
<1> USE DEF Phased
<1>1. CASE runDailyRenewalReminders
  BY <1>1 DEF runDailyRenewalReminders
<1>2. CASE findUpcoming \/ findFails \/ runEnds
  BY <1>2, OthersNote DEF findUpcoming, findFails, runEnds, Noted
<1>3. CASE nextDay
  BY <1>3, NightNotes DEF nextDay, Noted
<1>4. ASSUME NEW row \in todo, \/ markExpired(row) \/ skipExpiration(row) \/ nothingDue(row)
                               \/ processCompanyRenewalReminders(row) \/ skipReminder(row)
      PROVE  Phased'
  BY <1>4 DEF markExpired, skipExpiration, nothingDue, processCompanyRenewalReminders,
     skipReminder, Passed
<1>5. ASSUME NEW c \in Company, remove(c) \/ \E end \in EndDate : activateCompany(c, end)
      PROVE  Phased'
  BY <1>5, OthersNote, ActivateNotes DEF remove, activateCompany, Noted
<1>6. CASE UNCHANGED vars
  BY <1>6 DEF vars
<1> QED BY <1>1, <1>2, <1>3, <1>4, <1>5, <1>6, Steps

\* A step of the run writes no date, and takes at most its own row off the list.
LEMMA RowSteps ==
  ASSUME Typed, NEW row \in todo,
         \/ markExpired(row) \/ skipExpiration(row) \/ nothingDue(row)
         \/ processCompanyRenewalReminders(row) \/ skipReminder(row)
  PROVE  /\ todo' = todo \ {row}
         /\ day' = day /\ ran' = ran /\ present' = present /\ phase' = phase
         /\ renewalDate' = renewalDate
         /\ past'.changed = past.changed /\ past'.stale = past.stale
         /\ past.failed \subseteq past'.failed /\ past.mailed \subseteq past'.mailed
         /\ reminder \subseteq reminder'
<1>1. CASE markExpired(row)
  BY <1>1 DEF markExpired
<1>2. CASE skipExpiration(row) \/ skipReminder(row)
  BY <1>2, OthersNote DEF skipExpiration, skipReminder, AfterFailure, Noted
<1>3. CASE nothingDue(row)
  BY <1>3 DEF nothingDue, Passed
<1>4. CASE processCompanyRenewalReminders(row)
  BY <1>4, OthersNote DEF processCompanyRenewalReminders, Passed, Noted
<1> QED BY <1>1, <1>2, <1>3, <1>4

LEMMA ActivateDoes ==
  ASSUME Typed, NEW c \in Company, NEW end \in EndDate, activateCompany(c, end)
  PROVE  /\ \A d \in Company : d # c => /\ renewalDate'[d] = renewalDate[d]
                                       /\ renewalStatus'[d] = renewalStatus[d]
         /\ renewalDate'[c] = end /\ renewalStatus'[c] = "ACTIVE"
         /\ UNCHANGED <<day, ran, present, reminder, phase, todo, faults>>
         /\ past'.changed = past.changed \cup {c}
         /\ past'.failed = past.failed /\ past'.mailed = past.mailed
         /\ past.stale \subseteq past'.stale
         /\ (phase = "expire" /\ InTodo(c)) => c \in past'.stale
<1>1. /\ renewalDate' = [renewalDate EXCEPT ![c] = end]
      /\ renewalStatus' = [renewalStatus EXCEPT ![c] = "ACTIVE"]
      /\ UNCHANGED <<day, ran, present, reminder, phase, todo, faults>>
  BY DEF activateCompany
<1>2. PICK S \in SUBSET Company :
        /\ Noted(past.changed \cup {c}, past.failed, past.mailed, S)
        /\ past.stale \subseteq S
        /\ (phase = "expire" /\ InTodo(c)) => c \in S
  BY ActivateNotes
<1> QED BY <1>1, <1>2 DEF Noted, Typed, TypeOK

LEMMA AsReadKept ==
  ASSUME Typed, Phased, AsRead, [Next]_vars
  PROVE  AsRead'
<1> USE DEF AsRead, Unchanged
<1>1. CASE runDailyRenewalReminders
  <2> DEFINE S == {c \in present : Lapsed(c)}
  <2>1. S \in SUBSET Company /\ todo' = Listed(S) /\ renewalDate' = renewalDate
    BY <1>1 DEF runDailyRenewalReminders, Typed, TypeOK
  <2> HIDE DEF S
  <2> QED BY <2>1, Lists DEF Typed
<1>2. CASE findUpcoming
  <2> DEFINE S == {c \in present : renewalDate[c] >= day}
  <2>1. S \in SUBSET Company /\ todo' = Listed(S) /\ renewalDate' = renewalDate
    BY <1>2 DEF findUpcoming, Typed, TypeOK
  <2> HIDE DEF S
  <2> QED BY <2>1, Lists DEF Typed
<1>3. CASE findFails \/ runEnds
  BY <1>3, OthersNote DEF findFails, runEnds, Noted
<1>4. CASE nextDay
  BY <1>4 DEF nextDay, Phased
<1>5. ASSUME NEW row \in todo, \/ markExpired(row) \/ skipExpiration(row) \/ nothingDue(row)
                               \/ processCompanyRenewalReminders(row) \/ skipReminder(row)
      PROVE  AsRead'
  BY <1>5, RowSteps
<1>6. ASSUME NEW c \in Company, remove(c)
      PROVE  AsRead'
  BY <1>6, OthersNote DEF remove, Noted
<1>7. ASSUME NEW c \in Company, NEW end \in EndDate, activateCompany(c, end)
      PROVE  AsRead'
  BY <1>7, ActivateDoes DEF Typed, TypeOK
<1>8. CASE UNCHANGED vars
  BY <1>8 DEF vars
<1> QED BY <1>1, <1>2, <1>3, <1>4, <1>5, <1>6, <1>7, <1>8, Steps

LEMMA HeldRowsKept ==
  ASSUME Typed, HeldRows, [Next]_vars
  PROVE  HeldRows'
<1> USE DEF HeldRows
<1>1. CASE runDailyRenewalReminders
  <2> DEFINE S == {c \in present : Lapsed(c)}
  <2>1. S \in SUBSET Company /\ todo' = Listed(S) /\ renewalDate' = renewalDate /\ day' = day
    BY <1>1 DEF runDailyRenewalReminders, Typed, TypeOK
  <2>2. \A c \in S : renewalDate[c] < day
    BY DEF Lapsed
  <2> HIDE DEF S
  <2> QED BY <2>1, <2>2, Lists DEF Typed
<1>2. CASE findUpcoming \/ findFails \/ runEnds \/ nextDay
  BY <1>2 DEF findUpcoming, findFails, runEnds, nextDay
<1>3. ASSUME NEW row \in todo, \/ markExpired(row) \/ skipExpiration(row) \/ nothingDue(row)
                               \/ processCompanyRenewalReminders(row) \/ skipReminder(row)
      PROVE  HeldRows'
  BY <1>3, RowSteps
<1>4. ASSUME NEW c \in Company, remove(c)
      PROVE  HeldRows'
  BY <1>4, OthersNote DEF remove, Noted
<1>5. ASSUME NEW c \in Company, NEW end \in EndDate, activateCompany(c, end)
      PROVE  HeldRows'
  BY <1>5, ActivateDoes DEF InTodo, Typed, TypeOK
<1>6. CASE UNCHANGED vars
  BY <1>6 DEF vars
<1> QED BY <1>1, <1>2, <1>3, <1>4, <1>5, <1>6, Steps

LEMMA ExpiredIsPastKept ==
  ASSUME Typed, HeldRows, ExpiredIsPast, [Next]_vars
  PROVE  ExpiredIsPast'
<1> USE DEF ExpiredIsPast
<1>1. CASE runDailyRenewalReminders \/ findFails
  BY <1>1, OthersNote DEF runDailyRenewalReminders, findFails, Noted
<1>2. CASE findUpcoming \/ runEnds
  BY <1>2 DEF findUpcoming, runEnds
<1>3. CASE nextDay
  <2>1. day' = day + 1 /\ \A c \in Company : renewalDate[c] \in Int
    BY <1>3, RenewalsAssumption DEF nextDay, Typed, TypeOK, Dates, NoDate
  <2>2. /\ renewalDate' = renewalDate /\ renewalStatus' = renewalStatus /\ present' = present
        /\ past'.stale = past.stale
    BY <1>3, NightNotes DEF nextDay, Noted
  <2> QED BY <2>1, <2>2 DEF Typed, TypeOK
<1>4. ASSUME NEW row \in todo, markExpired(row)
      PROVE  ExpiredIsPast'
  <2>1. /\ past' = past /\ day' = day /\ present' = present /\ renewalDate' = renewalDate
        /\ phase = "expire" /\ row.co \in present
        /\ renewalStatus' = [renewalStatus EXCEPT ![row.co] = "EXPIRED"]
    BY <1>4 DEF markExpired
  <2>2. row.co \in present \ past.stale => renewalDate[row.co] < day
    BY <2>1 DEF HeldRows
  <2> QED BY <2>1, <2>2 DEF Typed, TypeOK
<1>5. ASSUME NEW row \in todo, \/ skipExpiration(row) \/ nothingDue(row)
                               \/ processCompanyRenewalReminders(row) \/ skipReminder(row)
      PROVE  ExpiredIsPast'
  <2>1. renewalStatus' = renewalStatus
    BY <1>5 DEF skipExpiration, nothingDue, processCompanyRenewalReminders, skipReminder, Passed
  <2> QED BY <1>5, <2>1, RowSteps
<1>6. ASSUME NEW c \in Company, remove(c)
      PROVE  ExpiredIsPast'
  BY <1>6, OthersNote DEF remove, Noted
<1>7. ASSUME NEW c \in Company, NEW end \in EndDate, activateCompany(c, end)
      PROVE  ExpiredIsPast'
  BY <1>7, ActivateDoes DEF Typed, TypeOK
<1>8. CASE UNCHANGED vars
  BY <1>8 DEF vars
<1> QED BY <1>1, <1>2, <1>3, <1>4, <1>5, <1>6, <1>7, <1>8, Steps

-----------------------------------------------------------------------------
(* What the run does.                                                      *)

\* What is mailed is the number of days in the list's row.
LEMMA Mails ==
  ASSUME Typed, NEW row \in todo, processCompanyRenewalReminders(row)
  PROVE  /\ phase = "remind" /\ row.co \notin Unmailable
         /\ row.date - day \in REMINDER_DAYS_BY_CHANNEL[Channel[row.co]]
         /\ past'.mailed = past.mailed \cup {<<row.co, row.date - day>>}
         /\ past'.failed = past.failed
<1>1. PICK n \in Due(row) :
        Noted(past.changed, past.failed, past.mailed \cup {<<row.co, n>>}, past.stale)
  BY OthersNote
<1>2. n = row.date - day /\ n \in REMINDER_DAYS_BY_CHANNEL[Channel[row.co]]
  BY <1>1 DEF Due, daysRemaining
<1> QED BY <1>1, <1>2 DEF processCompanyRenewalReminders, Noted

LEMMA ToldKept ==
  ASSUME Typed, Phased, AsRead, Told, [Next]_vars
  PROVE  Told'
<1> USE DEF Told, Unchanged
<1>0. \A m \in past.mailed : m[1] \in Company
  BY DEF Typed, Past
<1>1. CASE runDailyRenewalReminders
  BY <1>1, OthersNote DEF runDailyRenewalReminders, Noted, Phased
<1>2. CASE findUpcoming \/ findFails \/ runEnds
  BY <1>2, OthersNote DEF findUpcoming, findFails, runEnds, Noted
<1>3. CASE nextDay
  BY <1>3, NightNotes DEF nextDay, Noted
<1>4. ASSUME NEW row \in todo,
             markExpired(row) \/ skipExpiration(row) \/ nothingDue(row) \/ skipReminder(row)
      PROVE  Told'
  <2>1. past'.mailed = past.mailed
    BY <1>4, OthersNote DEF markExpired, skipExpiration, nothingDue, skipReminder, Noted
  <2> QED BY <1>4, <2>1, RowSteps
<1>5. ASSUME NEW row \in todo, processCompanyRenewalReminders(row)
      PROVE  Told'
  <2>1. past'.mailed = past.mailed \cup {<<row.co, row.date - day>>}
    BY <1>5, Mails
  <2>2. /\ day' = day /\ renewalDate' = renewalDate /\ present' = present
        /\ past'.changed = past.changed
    BY <1>5, RowSteps
  <2>3. row.co \in Unchanged => renewalDate[row.co] = day + (row.date - day)
    BY RowTyped DEF AsRead, Typed, TypeOK
  <2> QED BY <2>1, <2>2, <2>3
<1>6. ASSUME NEW c \in Company, remove(c)
      PROVE  Told'
  BY <1>6, OthersNote DEF remove, Noted
<1>7. ASSUME NEW c \in Company, NEW end \in EndDate, activateCompany(c, end)
      PROVE  Told'
  <2>1. /\ past'.mailed = past.mailed /\ day' = day /\ present' = present
        /\ past'.changed = past.changed \cup {c}
        /\ \A d \in Company : d # c => renewalDate'[d] = renewalDate[d]
    BY <1>7, ActivateDoes
  <2> QED BY <1>0, <2>1
<1>8. CASE UNCHANGED vars
  BY <1>8 DEF vars
<1> QED BY <1>1, <1>2, <1>3, <1>4, <1>5, <1>6, <1>7, <1>8, Steps

LEMMA MarkedKept ==
  ASSUME Typed, Phased, AsRead, Marked, [Next]_vars
  PROVE  Marked'
<1> USE DEF Marked, Unchanged, Handled, Lapsed, InTodo
<1>1. CASE runDailyRenewalReminders
  <2> DEFINE S == {c \in present : Lapsed(c)}
  <2>1. /\ S \in SUBSET Company /\ todo' = Listed(S) /\ phase' = "expire"
        /\ present' = present /\ day' = day
        /\ renewalDate' = renewalDate /\ renewalStatus' = renewalStatus
    BY <1>1 DEF runDailyRenewalReminders, Typed, TypeOK
  <2>2. \A c \in present : Lapsed(c) => c \in S
    OBVIOUS
  <2> HIDE DEF S
  <2> QED BY <2>1, <2>2, Lists DEF Typed
<1>2. CASE findUpcoming \/ runEnds
  BY <1>2 DEF findUpcoming, runEnds
<1>3. CASE findFails
  <2>1. past'.failed = Company /\ present' = present
    BY <1>3, OthersNote DEF findFails, Noted
  <2> QED BY <2>1 DEF Typed, TypeOK
<1>4. CASE nextDay
  BY <1>4 DEF nextDay
<1>5. ASSUME NEW row \in todo, markExpired(row)
      PROVE  Marked'
  <2>1. /\ renewalStatus' = [renewalStatus EXCEPT ![row.co] = "EXPIRED"] /\ past' = past
    BY <1>5 DEF markExpired
  <2> QED BY <1>5, <2>1, RowSteps DEF Typed, TypeOK
<1>6. ASSUME NEW row \in todo, skipExpiration(row) \/ skipReminder(row)
      PROVE  Marked'
  <2>1. past'.failed = past.failed \cup {row.co} /\ renewalStatus' = renewalStatus
    BY <1>6, OthersNote DEF skipExpiration, skipReminder, Noted
  <2> QED BY <1>6, <2>1, RowSteps
<1>7. ASSUME NEW row \in todo, nothingDue(row) \/ processCompanyRenewalReminders(row)
      PROVE  Marked'
  <2>1. phase = "remind" /\ renewalStatus' = renewalStatus
    BY <1>7 DEF nothingDue, processCompanyRenewalReminders, Passed
  <2> QED BY <1>7, <2>1, RowSteps
<1>8. ASSUME NEW c \in Company, remove(c)
      PROVE  Marked'
  BY <1>8, OthersNote DEF remove, Noted
<1>9. ASSUME NEW c \in Company, NEW end \in EndDate, activateCompany(c, end)
      PROVE  Marked'
  <2>1. /\ past'.failed = past.failed /\ day' = day /\ present' = present
        /\ ran' = ran /\ phase' = phase /\ todo' = todo
        /\ past'.changed = past.changed \cup {c}
        /\ \A d \in Company : d # c => /\ renewalDate'[d] = renewalDate[d]
                                       /\ renewalStatus'[d] = renewalStatus[d]
    BY <1>9, ActivateDoes
  <2> QED BY <2>1 DEF Typed, TypeOK
<1>10. CASE UNCHANGED vars
  BY <1>10 DEF vars
<1> QED BY <1>1, <1>2, <1>3, <1>4, <1>5, <1>6, <1>7, <1>8, <1>9, <1>10, Steps

LEMMA RemindedKept ==
  ASSUME Typed, Phased, AsRead, Reminded, [Next]_vars
  PROVE  Reminded'
<1> USE DEF Reminded, Unchanged, Handled, InTodo
<1>0. /\ \A c \in Company : REMINDER_DAYS_BY_CHANNEL[Channel[c]] \subseteq Days
      /\ Days \subseteq Nat /\ day \in Nat
  BY RenewalsAssumption DEF REMINDER_DAYS_BY_CHANNEL, Days, Typed, TypeOK
<1>1. CASE runDailyRenewalReminders
  BY <1>1 DEF runDailyRenewalReminders
<1>2. CASE findUpcoming
  <2> DEFINE S == {c \in present : renewalDate[c] >= day}
  <2>1. /\ S \in SUBSET Company /\ todo' = Listed(S) /\ phase' = "remind"
        /\ UNCHANGED <<present, day, renewalDate, past, reminder>>
    BY <1>2 DEF findUpcoming, Typed, TypeOK
  <2>2. \A c \in present : \A n \in REMINDER_DAYS_BY_CHANNEL[Channel[c]] :
          renewalDate[c] = day + n => c \in S /\ renewalDate[c] # NoDate
    <3> SUFFICES ASSUME NEW c \in present, NEW n \in REMINDER_DAYS_BY_CHANNEL[Channel[c]],
                        renewalDate[c] = day + n
                 PROVE  renewalDate[c] >= day /\ renewalDate[c] # NoDate
      OBVIOUS
    <3>1. n \in Nat
      BY <1>0 DEF Typed, TypeOK
    <3> QED BY <1>0, <3>1 DEF NoDate
  <2> HIDE DEF S
  <2> QED BY <2>1, <2>2, Lists DEF Typed
<1>3. CASE findFails
  <2>1. past'.failed = Company /\ present' = present
    BY <1>3, OthersNote DEF findFails, Noted
  <2> QED BY <2>1 DEF Typed, TypeOK
<1>4. CASE runEnds
  BY <1>4 DEF runEnds, Phased
<1>5. CASE nextDay
  BY <1>5 DEF nextDay
<1>6. ASSUME NEW row \in todo, markExpired(row)
      PROVE  Reminded'
  BY <1>6 DEF markExpired
<1>7. ASSUME NEW row \in todo, skipExpiration(row) \/ skipReminder(row)
      PROVE  Reminded'
  <2>1. past'.failed = past.failed \cup {row.co} /\ past'.mailed = past.mailed
        /\ reminder' = reminder
    BY <1>7, OthersNote DEF skipExpiration, skipReminder, Noted
  <2> QED BY <1>7, <2>1, RowSteps
<1>8. ASSUME NEW row \in todo, nothingDue(row)
      PROVE  Reminded'
  <2>1. /\ phase = "remind" /\ UNCHANGED <<reminder, past>>
        /\ row.co \in Unmailable \/ Due(row) = {}
    BY <1>8 DEF nothingDue
  <2>2. ASSUME row.co \in Handled, row.co \notin Unmailable,
               NEW n \in REMINDER_DAYS_BY_CHANNEL[Channel[row.co]],
               renewalDate[row.co] = day + n
        PROVE  <<row.co, n>> \in reminder
    <3>1. n \in Nat /\ row.date = day + n
      BY <1>0, <2>2, RowTyped DEF AsRead, Typed
    <3>2. n = row.date - day
      BY <1>0, <3>1
    <3> QED BY <2>1, <2>2, <3>2 DEF Due, daysRemaining
  <2> QED BY <1>8, <2>1, <2>2, RowSteps
<1>9. ASSUME NEW row \in todo, processCompanyRenewalReminders(row)
      PROVE  Reminded'
  <2>1. /\ phase = "remind" /\ past'.failed = past.failed
        /\ past'.mailed = past.mailed \cup {<<row.co, row.date - day>>}
    BY <1>9, Mails
  <2>2. ASSUME row.co \in Handled, NEW n \in REMINDER_DAYS_BY_CHANNEL[Channel[row.co]],
               renewalDate[row.co] = day + n
        PROVE  <<row.co, n>> \in past'.mailed
    <3>1. n \in Nat /\ row.date = day + n
      BY <1>0, <2>2, RowTyped DEF AsRead, Typed
    <3>2. n = row.date - day
      BY <1>0, <3>1
    <3> QED BY <2>1, <3>2
  <2> QED BY <1>9, <2>1, <2>2, RowSteps
<1>10. ASSUME NEW c \in Company, remove(c)
       PROVE  Reminded'
  <2>1. /\ reminder' = {r \in reminder : r[1] # c} /\ present' = present \ {c}
        /\ UNCHANGED <<ran, phase, day, renewalDate, todo>>
    BY <1>10 DEF remove
  <2>2. past'.failed = past.failed /\ past'.mailed = past.mailed
        /\ past'.changed = past.changed \cup {c}
    BY <1>10, OthersNote DEF Noted
  <2>3. \A d \in present' : \A n : <<d, n>> \in reminder => <<d, n>> \in reminder'
    BY <2>1
  <2> QED BY <2>1, <2>2, <2>3
<1>11. ASSUME NEW c \in Company, NEW end \in EndDate, activateCompany(c, end)
       PROVE  Reminded'
  <2>1. /\ past'.failed = past.failed /\ past'.mailed = past.mailed
        /\ UNCHANGED <<day, ran, present, reminder, phase, todo>>
        /\ past'.changed = past.changed \cup {c}
        /\ \A d \in Company : d # c => renewalDate'[d] = renewalDate[d]
    BY <1>11, ActivateDoes
  <2> QED BY <2>1 DEF Typed, TypeOK
<1>12. CASE UNCHANGED vars
  BY <1>12 DEF vars
<1> QED BY <1>1, <1>2, <1>3, <1>4, <1>5, <1>6, <1>7, <1>8, <1>9, <1>10, <1>11, <1>12, Steps

-----------------------------------------------------------------------------
(* The results.                                                            *)

\* The invariant that the results rest on holds of every state: what the run still has
\* to do, and what it noted, accounts for every company (runDailyRenewalReminders,
\* processCompanyRenewalReminders).
THEOREM Inductive == Spec => []IInv
<1>1. Init => IInv
  <2> SUFFICES ASSUME Init
               PROVE  IInv
    OBVIOUS
  <2>1. past \in Past
    BY DEF Init, Past
  <2>2. 0 \in 0..MaxDay /\ 0 \in 0..MaxFault
    BY RenewalsAssumption
  <2>3. Typed
    BY <2>1, <2>2 DEF Init, Typed, TypeOK, Dates
  <2> QED BY <2>3 DEF Init, IInv, Phased, AsRead, HeldRows, Marked, Reminded, Told, ExpiredIsPast
<1>2. IInv /\ [Next]_vars => IInv'
  BY TypedKept, PhasedKept, AsReadKept, HeldRowsKept, MarkedKept, RemindedKept, ToldKept,
     ExpiredIsPastKept DEF IInv
<1> QED BY <1>1, <1>2, PTL DEF Spec

\* No company is EXPIRED whose contract still runs, however a run and an activation
\* interleave, unless the run held its lapsed row when it was activated.
THEOREM Expired_is_past == Spec => []ExpiredIsPast
<1>1. IInv => ExpiredIsPast
  BY DEF IInv
<1> QED BY <1>1, Inductive, PTL

\* A night's run that is over has marked and reminded every company it should have,
\* except those that changed under it and those whose own step failed: a failure in one
\* company's step, or another's removal, costs no other company anything.
THEOREM Everyone_handled == Spec => []EveryoneHandled
<1>1. IInv => EveryoneHandled
  <2> SUFFICES ASSUME IInv, Over, NEW c \in present \ past.changed
               PROVE  /\ \A m \in past.mailed : m[1] = c => renewalDate[c] = day + m[2]
                      /\ c \notin past.failed =>
                           /\ renewalDate[c] # NoDate /\ renewalDate[c] < day
                              => renewalStatus[c] = "EXPIRED"
                           /\ \A n \in REMINDER_DAYS_BY_CHANNEL[Channel[c]] :
                                renewalDate[c] = day + n /\ c \notin Unmailable =>
                                  <<c, n>> \in reminder \cup past.mailed
    BY DEF EveryoneHandled
  <2>1. \A m \in past.mailed : m[1] = c => renewalDate[c] = day + m[2]
    BY DEF IInv, Told, Unchanged
  <2>2. ASSUME c \notin past.failed, renewalDate[c] # NoDate, renewalDate[c] < day
        PROVE  renewalStatus[c] = "EXPIRED"
    BY <2>2 DEF IInv, Over, Marked, Handled, Unchanged, Lapsed
  <2>3. ASSUME c \notin past.failed, c \notin Unmailable,
               NEW n \in REMINDER_DAYS_BY_CHANNEL[Channel[c]], renewalDate[c] = day + n
        PROVE  <<c, n>> \in reminder \cup past.mailed
    BY <2>3 DEF IInv, Over, Reminded, Handled, Unchanged
  <2> QED BY <2>1, <2>2, <2>3
<1> QED BY <1>1, Inductive, PTL

=============================================================================
