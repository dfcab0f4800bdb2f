------------------------------ MODULE Renewals ------------------------------
(***************************************************************************)
(* The renewal cron of src/src/renewals: once a night it marks the         *)
(* companies whose renewal date has passed, then mails those that are a    *)
(* listed number of days away from theirs.  Both lists are read before the *)
(* first mail, so a company activated or removed while the run is at work  *)
(* is handled as it was when the list was read.                            *)
(***************************************************************************)
EXTENDS Integers, FiniteSets

CONSTANTS
  Company,
  Channel,    \* clientChannel of a company
  EndDate,    \* the contract ends an activation may give
  Unmailable, \* the companies whose contactEmail is blank
  MaxDay,     \* bound: the last night of the model
  MaxFault    \* bound: writes and reads that fail, and nights the process is down

ASSUME RenewalsAssumption ==
  /\ Channel \in [Company -> {"DIRECT", "AGGREGATOR"}]
  /\ EndDate \subseteq Nat
  /\ Unmailable \subseteq Company
  /\ MaxDay \in Nat /\ MaxFault \in Nat

NoDate == -1

VARIABLES
  day,           \* the date
  ran,           \* the cron has fired today
  present,       \* the rows of client_profiles
  renewalDate,
  renewalStatus, \* "null", "ACTIVE" or "EXPIRED"
  reminder,      \* the rows of renewal_reminders: (company, daysBefore)
  phase,         \* what the run is at: "idle", "expire", "read" or "remind"
  todo,          \* the companies of the list still to do, with their date as read
  faults,        \* bound
  past           \* changed: activated or removed since the lists of this run were
                 \* read; failed: not handled by this run; mailed: what this run mailed;
                 \* renewed: activated twice; stale: activated while the run held a row
                 \* that made it lapsed

vars == <<day, ran, present, renewalDate, renewalStatus, reminder, phase, todo, faults, past>>

Days == {7, 14, 21, 30}

REMINDER_DAYS_BY_CHANNEL == [DIRECT |-> {30, 7}, AGGREGATOR |-> {30, 21, 14, 7}]

Fault == faults < MaxFault /\ faults' = faults + 1

Init ==
  /\ day = 0 /\ ran = FALSE /\ faults = 0
  /\ present = Company
  /\ renewalDate = [c \in Company |-> NoDate]
  /\ renewalStatus = [c \in Company |-> "null"]
  /\ reminder = {}
  /\ phase = "idle" /\ todo = {}
  /\ past = [changed |-> {}, failed |-> {}, mailed |-> {}, renewed |-> {},
             stale |-> {}]

-----------------------------------------------------------------------------
(* The other actors.                                                       *)

\* A client comes back to FINAL_AGREEMENT_SHARED only when an admin sets it there.
activateCompany(c, end) ==
  /\ c \in present /\ end > day /\ c \notin past.renewed
  /\ renewalDate' = [renewalDate EXCEPT ![c] = end]
  /\ renewalStatus' = [renewalStatus EXCEPT ![c] = "ACTIVE"]
  /\ past' = [past EXCEPT !.changed = @ \cup {c},
                          !.renewed = IF renewalDate[c] # NoDate THEN @ \cup {c} ELSE @,
                          !.stale = IF phase = "expire" /\ \E row \in todo : row.co = c
                                      THEN @ \cup {c} ELSE @]
  /\ UNCHANGED <<day, ran, present, reminder, phase, todo, faults>>

\* The reminders go with their company.
remove(c) ==
  /\ c \in present
  /\ present' = present \ {c}
  /\ reminder' = {r \in reminder : r[1] # c}
  /\ past' = [past EXCEPT !.changed = @ \cup {c}]
  /\ UNCHANGED <<day, ran, renewalDate, renewalStatus, phase, todo, faults>>

\* A night passes with the cron's run behind it, or, if the process was down, without.
nextDay ==
  /\ phase = "idle" /\ day < MaxDay
  /\ IF ran THEN UNCHANGED faults ELSE Fault
  /\ day' = day + 1 /\ ran' = FALSE
  /\ past' = [past EXCEPT !.changed = {}, !.failed = {}, !.mailed = {}]
  /\ UNCHANGED <<present, renewalDate, renewalStatus, reminder, phase, todo>>

-----------------------------------------------------------------------------
(* The run.                                                                *)

LapsedToday(c) == renewalDate[c] <= day /\ renewalStatus[c] # "EXPIRED"
Lapsed(c) == renewalDate[c] < day /\ renewalStatus[c] # "EXPIRED"

Listed(S) == {[co |-> c, date |-> renewalDate[c]] : c \in {d \in S : renewalDate[d] # NoDate}}

runDailyRenewalReminders ==
  /\ phase = "idle" /\ ~ran
  /\ ran' = TRUE
  /\ phase' = "expire"
  /\ todo' = Listed({c \in present : Lapsed(c)})
  /\ past' = [past EXCEPT !.changed = {}]
  /\ UNCHANGED <<day, present, renewalDate, renewalStatus, reminder, faults>>

\* What is left to do once a company could not be handled.
AfterFailureNone(row) == {}
AfterFailure(row) == todo \ {row}

\* The update names the company alone: it no longer asks for the date that was read.
markExpired(row) ==
  /\ phase = "expire" /\ row \in todo
  /\ row.co \in present
  /\ renewalStatus' = [renewalStatus EXCEPT ![row.co] = "EXPIRED"]
  /\ todo' = todo \ {row}
  /\ UNCHANGED <<day, ran, present, renewalDate, reminder, phase, faults, past>>

skipExpiration(row) ==
  /\ phase = "expire" /\ row \in todo
  /\ IF row.co \in present THEN Fault ELSE UNCHANGED faults
  /\ todo' = AfterFailure(row)
  /\ past' = [past EXCEPT !.failed = @ \cup {row.co}]
  /\ UNCHANGED <<day, ran, present, renewalDate, renewalStatus, reminder, phase>>

findUpcoming ==
  /\ phase = "expire" /\ todo = {}
  /\ phase' = "remind"
  /\ todo' = Listed({c \in present : renewalDate[c] >= day})
  /\ UNCHANGED <<day, ran, present, renewalDate, renewalStatus, reminder, faults, past>>

\* Either list may fail to be read: the run is over.
findFails ==
  /\ \/ phase = "idle" /\ ~ran
     \/ phase = "expire" /\ todo = {}
  /\ Fault
  /\ ran' = TRUE /\ phase' = "idle"
  /\ past' = [past EXCEPT !.failed = Company]
  /\ UNCHANGED <<day, present, renewalDate, renewalStatus, reminder, todo>>

daysRemaining(row) == row.date - day

Due(row) == {n \in REMINDER_DAYS_BY_CHANNEL[Channel[row.co]] :
               n = daysRemaining(row) /\ <<row.co, n>> \notin reminder}

Passed(row) ==
  /\ todo' = todo \ {row}
  /\ UNCHANGED <<day, ran, present, renewalDate, renewalStatus, phase>>

nothingDue(row) ==
  /\ phase = "remind" /\ row \in todo
  /\ row.co \in Unmailable \/ Due(row) = {}
  /\ Passed(row)
  /\ UNCHANGED <<reminder, faults, past>>

\* The mailer reports nothing: the reminder is recorded whether or not it went out.
processCompanyRenewalReminders(row) ==
  /\ phase = "remind" /\ row \in todo
  /\ row.co \notin Unmailable
  /\ \E n \in Due(row) :
       /\ past' = [past EXCEPT !.mailed = @ \cup {<<row.co, n>>}]
       /\ \/ row.co \in present /\ reminder' = reminder \cup {<<row.co, n>>} /\ UNCHANGED faults
          \* The row of a removed company is refused by its foreign key.
          \/ row.co \notin present /\ UNCHANGED <<reminder, faults>>
          \/ row.co \in present /\ Fault /\ UNCHANGED reminder
  /\ Passed(row)

skipReminder(row) ==
  /\ phase = "remind" /\ row \in todo
  /\ Fault
  /\ todo' = AfterFailure(row)
  /\ past' = [past EXCEPT !.failed = @ \cup {row.co}]
  /\ UNCHANGED <<day, ran, present, renewalDate, renewalStatus, reminder, phase>>

runEndsUnlessFailed ==
  /\ phase = "remind" /\ todo = {} /\ past.failed = {}
  /\ phase' = "idle"
  /\ UNCHANGED <<day, ran, present, renewalDate, renewalStatus, reminder, todo, faults, past>>
runEnds ==
  /\ phase = "remind" /\ todo = {}
  /\ phase' = "idle"
  /\ UNCHANGED <<day, ran, present, renewalDate, renewalStatus, reminder, todo, faults, past>>

Run ==
  \/ runDailyRenewalReminders \/ findUpcoming \/ findFails \/ runEnds
  \/ \E row \in todo :
       \/ markExpired(row) \/ skipExpiration(row)
       \/ nothingDue(row) \/ processCompanyRenewalReminders(row) \/ skipReminder(row)

Others ==
  \/ nextDay
  \/ \E c \in Company : remove(c) \/ \E end \in EndDate : activateCompany(c, end)

Next == Run \/ Others

Spec == Init /\ [][Next]_vars

\* The run goes on once it has started, and the date moves on.
FairSpec == Spec /\ WF_vars(Run) /\ WF_vars(nextDay)

-----------------------------------------------------------------------------
(* Properties.                                                             *)

Dates == EndDate \cup {NoDate}

\* Rows and the run's lists keep their shape; a date goes with a status.
TypeOK ==
  /\ day \in 0..MaxDay /\ ran \in BOOLEAN /\ faults \in 0..MaxFault
  /\ present \subseteq Company
  /\ renewalDate \in [Company -> Dates]
  /\ renewalStatus \in [Company -> {"null", "ACTIVE", "EXPIRED"}]
  /\ \A c \in Company : renewalDate[c] = NoDate <=> renewalStatus[c] = "null"
  /\ reminder \subseteq Company \X Days
  /\ phase \in {"idle", "expire", "remind"}
  /\ todo \subseteq [co : Company, date : EndDate]

\* Tonight's run is over.
Over == ran /\ phase = "idle"

\* After a night's run, every company whose date has passed is EXPIRED, every
\* mailable company that is a listed number of days away has its reminder, and nobody
\* was told another number of days, whatever happened to the other companies of the
\* list: only a company that changed while the run was at work, or whose own step
\* failed, may be left for another night.  A reminder sent in an earlier contract
\* counts, see the README.
EveryoneHandled ==
  Over => \A c \in present \ past.changed :
            /\ \A m \in past.mailed : m[1] = c => renewalDate[c] = day + m[2]
            /\ c \notin past.failed =>
                 /\ renewalDate[c] # NoDate /\ renewalDate[c] < day => renewalStatus[c] = "EXPIRED"
                 /\ \A n \in REMINDER_DAYS_BY_CHANNEL[Channel[c]] :
                      renewalDate[c] = day + n /\ c \notin Unmailable =>
                        <<c, n>> \in reminder \cup past.mailed

\* No company is marked EXPIRED whose contract still runs, unless it was activated
\* while the run that marked it held its old row.
ExpiredIsPast ==
  \A c \in present \ past.stale : renewalStatus[c] = "EXPIRED" => renewalDate[c] < day

\* A lapsed company does become EXPIRED, or goes or is renewed, however the nights
\* fail, as long as one night is left that does not.
LapsedGetsExpired ==
  \A c \in Company :
    (c \in present /\ renewalDate[c] \in 0..day-1 /\ day + MaxFault < MaxDay)
      ~> (c \notin present \/ renewalStatus[c] = "EXPIRED" \/ renewalDate[c] >= day)

=============================================================================
