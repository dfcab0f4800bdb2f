------------------------------ MODULE Accounts ------------------------------
(***************************************************************************)
(* User accounts and the links that let people into them: src/src/auth,    *)
(* src/src/users, src/src/aggregator-users, and the parts of               *)
(* src/src/client-profiles and src/src/companies that make, invite and     *)
(* remove the account of a company's client.  As in Documents a request is *)
(* a job whose steps, the awaits of its function, interleave with those of *)
(* the other requests.                                                     *)
(***************************************************************************)
EXTENDS Naturals, Sequences, FiniteSets, FiniteSetsExt

CONSTANTS
  Company,
  Email,
  FirstContact, \* contactEmail of a company when it is made
  SelfMade,  \* the emails that sign up, or are made an aggregator, by themselves
  Worker,    \* requests in progress at a time
  MaxUser,   \* bound: accounts ever made; their ids are 1..MaxUser
  MaxToken,  \* bound: links ever made; 0 stands for null
  Moving     \* bound: the companies whose contactEmail is changed, once

ASSUME AccountsAssumption ==
  /\ MaxUser \in Nat /\ MaxToken \in Nat
  /\ FirstContact \in [Company -> Email]
  /\ SelfMade \subseteq Email
  /\ Moving \subseteq Company
  /\ "none" \notin Company \cup Email

User  == 1..MaxUser
Token == 1..MaxToken

VARIABLES
  company,   \* the rows of client_profiles: "none" yet, "here" or "gone"
  contact,   \* contactEmail of a company
  row,       \* the rows of users, by id
  made,      \* how many accounts have ever been made
  issued,    \* how many links have ever been made
  magic,     \* the rows of auth_tokens, by token
  mail,      \* the invites that have been delivered
  job,       \* of a worker: the request it serves and the steps left
  past       \* what the properties need of the past, see Past

vars == <<company, contact, row, made, issued, magic, mail, job, past>>

Idle == [todo |-> <<>>, co |-> "none", to |-> "none", user |-> 0, tok |-> 0]

ByEmail(e)    == {u \in DOMAIN row : row[u].email = e}
ClientsOf(c)  == {u \in DOMAIN row : row[u].co = c /\ row[u].role = "CLIENT"}

At(w, step) == job[w].todo # <<>> /\ Head(job[w].todo) = step

\* A worker's job becomes j, or ends when no step is left.
Become(w, j) == job' = [job EXCEPT ![w] = IF j.todo = <<>> THEN Idle ELSE j]
Proceed(w)   == Become(w, [job[w] EXCEPT !.todo = Tail(@)])
Finish(w)    == job' = [job EXCEPT ![w] = Idle]
Plan(w, steps) == Become(w, [job[w] EXCEPT !.todo = steps])

Begin(w, j) == job[w] = Idle /\ job' = [job EXCEPT ![w] = j]

\* Another request has looked the account up and is still at work on it.
Contended(w, u) == \E v \in Worker \ {w} : job[v].user = u
Touch(w, u) == past' = [past EXCEPT !.raced = IF Contended(w, u) THEN @ \cup {u} ELSE @]

-----------------------------------------------------------------------------
(* Companies come, change their contact and go.                            *)

\* POST /client-profiles: the company is committed before its client is looked up.
create(w, c) ==
  /\ company[c] = "none"
  /\ company' = [company EXCEPT ![c] = "here"]
  /\ Begin(w, [Idle EXCEPT !.co = c, !.to = contact[c], !.todo = <<"find">>])
  /\ UNCHANGED <<contact, past, row, made, issued, magic, mail>>

\* POST /companies makes no account; an invite has to be sent by hand.
createCompany(c) ==
  /\ company[c] = "none"
  /\ company' = [company EXCEPT ![c] = "here"]
  /\ UNCHANGED <<contact, past, row, made, issued, magic, mail, job>>

updateMyCompany(c, e) ==
  /\ c \in Moving /\ past.contacts[c] = {contact[c]}
  /\ company[c] = "here"
  /\ ClientsOf(c) # {}
  /\ contact' = [contact EXCEPT ![c] = e]
  /\ past' = [past EXCEPT !.contacts[c] = @ \cup {e}]
  /\ UNCHANGED <<company, row, made, issued, magic, mail, job>>

\* DELETE /client-profiles/:id keeps the ids it found first and deletes them last.
remove(w, c) ==
  /\ company[c] = "here"
  /\ Begin(w, [Idle EXCEPT !.co = c, !.todo = <<"linked">>])
  /\ UNCHANGED <<company, contact, row, made, issued, magic, mail, past>>

findLinkedUsers(w) ==
  LET S == {u \in DOMAIN row : row[u].co = job[w].co}
  IN /\ At(w, "linked")
     /\ \E u \in IF S = {} THEN {0} ELSE S :
          Become(w, [job[w] EXCEPT !.user = u, !.todo = <<"unlink", "drop", "delete">>])
     /\ UNCHANGED <<company, contact, row, made, issued, magic, mail, past>>

Unlinked(c) == [u \in DOMAIN row |-> IF row[u].co = c THEN [row[u] EXCEPT !.co = "none"]
                                      ELSE row[u]]

disconnectUsers(w) ==
  /\ At(w, "unlink")
  /\ row' = Unlinked(job[w].co)
  /\ Proceed(w)
  /\ UNCHANGED <<company, contact, made, issued, magic, mail, past>>

\* The foreign key of an account that has been linked again is set to null.
deleteCompany(w) ==
  /\ At(w, "drop")
  /\ IF company[job[w].co] = "gone"
       THEN Finish(w) /\ UNCHANGED <<company, row>>
       ELSE /\ company' = [company EXCEPT ![job[w].co] = "gone"]
            /\ row' = Unlinked(job[w].co)
            /\ Proceed(w)
  /\ UNCHANGED <<contact, made, issued, magic, mail, past>>

Without(U) == /\ row' = [u \in DOMAIN row \ U |-> row[u]]
              /\ magic' = [t \in {t \in DOMAIN magic : magic[t].user \notin U} |-> magic[t]]

UsersToDelete(w) == DOMAIN row \cap {job[w].user}

deleteUsers(w) ==
  /\ At(w, "delete")
  /\ Without(UsersToDelete(w))
  /\ Proceed(w)
  /\ UNCHANGED <<company, contact, made, issued, mail, past>>

-----------------------------------------------------------------------------
(* Inviting the client of a company.                                       *)

\* createClientUserAndSendInvite looks the contact up and draws a link.
findContact(w) ==
  LET S == ByEmail(job[w].to)
      j == [job[w] EXCEPT !.tok = issued + 1]
  IN /\ At(w, "find")
     /\ issued < MaxToken
     /\ issued' = issued + 1
     /\ past' = [past EXCEPT !.invited = @ \cup {job[w].co}]
     /\ \/ S = {} /\ Become(w, [j EXCEPT !.todo = <<"insert", "mail">>])
        \/ \E u \in S : IF row[u].activated THEN Finish(w)
                        ELSE Become(w, [j EXCEPT !.user = u, !.todo = <<"relink", "mail">>])
     /\ UNCHANGED <<company, contact, row, made, magic, mail>>

\* The account of the contact, invited for another company or left by one.
RelinkKeepingLink(w) == [row[job[w].user] EXCEPT !.co = job[w].co] \* a slip
Relinked(w) == [row[job[w].user] EXCEPT !.co = job[w].co, !.role = "CLIENT",
                                        !.invite = job[w].tok]

relinkUser(w) ==
  LET u == job[w].user
  IN /\ At(w, "relink")
     /\ IF u \in DOMAIN row /\ company[job[w].co] = "here"
          THEN row' = [row EXCEPT ![u] = Relinked(w)] /\ Touch(w, u) /\ Proceed(w)
          ELSE Finish(w) /\ UNCHANGED <<row, past>>
     /\ UNCHANGED <<company, contact, made, issued, magic, mail>>

\* user.create: emails are unique, and a company must still be there.
Insert(w, r) ==
  IF ByEmail(r.email) # {} \/ (r.co # "none" /\ company[r.co] # "here")
    THEN Finish(w) /\ UNCHANGED <<row, made>>
    ELSE /\ made < MaxUser
         /\ made' = made + 1
         /\ row' = [u \in DOMAIN row \cup {made + 1} |->
                      IF u = made + 1 THEN r ELSE row[u]]
         /\ Become(w, [job[w] EXCEPT !.user = made + 1, !.todo = Tail(@)])

insertClient(w) ==
  /\ At(w, "insert")
  /\ Insert(w, [email |-> job[w].to, role |-> "CLIENT", co |-> job[w].co,
                pw |-> "none", invite |-> job[w].tok, reset |-> FALSE,
                activated |-> FALSE])
  /\ UNCHANGED <<company, contact, issued, magic, mail, past>>

\* sendEmail never throws: the invite arrives or is lost, the request goes on.
sendInvite(w) ==
  /\ At(w, "mail")
  /\ \/ mail' = mail \cup {[tok |-> job[w].tok, user |-> job[w].user, co |-> job[w].co]}
     \/ UNCHANGED mail
  /\ Proceed(w)
  /\ UNCHANGED <<company, contact, row, made, issued, magic, past>>

\* POST /client-profiles/:id/resend-invite: the email is the contact of now.
resendInvite(w, c) ==
  /\ company[c] = "here"
  /\ Begin(w, [Idle EXCEPT !.co = c, !.to = contact[c], !.todo = <<"client">>])
  /\ UNCHANGED <<company, contact, row, made, issued, magic, mail, past>>

\* The webhook's last step, after a payment.
sendInviteAfterPaymentIfNeeded(w, c) == resendInvite(w, c)

\* The client who is linked, whoever else has the contact's email.
findClient(w) ==
  LET S == ClientsOf(job[w].co)
  IN /\ At(w, "client")
     /\ \/ S = {} /\ Plan(w, <<"byemail">>)
        \/ \E u \in S : IF row[u].activated THEN Finish(w)
                        ELSE Become(w, [job[w] EXCEPT !.user = u, !.todo = <<"reissue", "mail">>])
     /\ UNCHANGED <<company, contact, row, made, issued, magic, mail, past>>

\* An account that has no company is linked, activated or not.
findByEmail(w) ==
  LET S == ByEmail(job[w].to)
  IN /\ At(w, "byemail")
     /\ \/ S = {} /\ Plan(w, <<"find">>)
        \/ \E u \in S :
             LET after == IF row[u].activated THEN <<>> ELSE <<"reissue", "mail">>
             IN Become(w, [job[w] EXCEPT !.user = u,
                  !.todo = (IF row[u].co = "none" THEN <<"adopt">> ELSE <<>>) \o after])
     /\ UNCHANGED <<company, contact, row, made, issued, magic, mail, past>>

adoptUser(w) ==
  LET u == job[w].user
  IN /\ At(w, "adopt")
     /\ IF u \in DOMAIN row /\ company[job[w].co] = "here"
          THEN /\ row' = [row EXCEPT ![u].co = job[w].co, ![u].role = "CLIENT"]
               /\ Touch(w, u)
               /\ Proceed(w)
          ELSE Finish(w) /\ UNCHANGED <<row, past>>
     /\ UNCHANGED <<company, contact, made, issued, magic, mail>>

reissueInvite(w) ==
  LET u == job[w].user
  IN /\ At(w, "reissue")
     /\ issued < MaxToken
     /\ issued' = issued + 1
     /\ IF u \in DOMAIN row
          THEN /\ row' = [row EXCEPT ![u].invite = issued + 1]
               /\ Touch(w, u)
               /\ Become(w, [job[w] EXCEPT !.tok = issued + 1, !.todo = Tail(@)])
          ELSE Finish(w) /\ UNCHANGED <<row, past>>
     /\ UNCHANGED <<company, contact, made, magic, mail>>

-----------------------------------------------------------------------------
(* The links.                                                              *)

\* A link whose time is over only is not used any more; it is left out.
setPassword(w, t) ==
  /\ \E u \in DOMAIN row :
       /\ row[u].invite = t
       /\ Begin(w, [Idle EXCEPT !.user = u, !.tok = t, !.todo = <<"activate">>])
  /\ UNCHANGED <<company, contact, row, made, issued, magic, mail, past>>

\* bcrypt takes its time, then the update by id: whatever the link is by now.
ActivatedBlank(r) == [r EXCEPT !.invite = 0, !.activated = TRUE] \* a slip
ActivatedHalfway(r) == [r EXCEPT !.pw = "set", !.invite = 0] \* a slip
Activated(r) == [r EXCEPT !.pw = "set", !.invite = 0, !.activated = TRUE]

activateAccount(w) ==
  LET u == job[w].user
  IN /\ At(w, "activate")
     /\ IF u \in DOMAIN row
          THEN row' = [row EXCEPT ![u] = Activated(row[u])] /\ Touch(w, u)
          ELSE UNCHANGED <<row, past>>
     /\ Finish(w)
     /\ UNCHANGED <<company, contact, made, issued, magic, mail>>

\* An account that is deleted under the request is all that could come between.
requestLogin(e) ==
  /\ issued < MaxToken
  /\ issued' = issued + 1
  /\ \E u \in ByEmail(e) :
       magic' = [t \in DOMAIN magic \cup {issued + 1} |->
                   IF t = issued + 1 THEN [user |-> u, used |-> FALSE] ELSE magic[t]]
  /\ UNCHANGED <<company, contact, row, made, mail, job, past>>

UsableEvenUsed(t) == t \in DOMAIN magic \* a slip
Usable(t) == t \in DOMAIN magic /\ ~magic[t].used

Verifying(t) == {w \in Worker : job[w].tok = t /\ (At(w, "use") \/ At(w, "session"))}

verifyLogin(w, t) ==
  /\ Usable(t)
  /\ Begin(w, [Idle EXCEPT !.user = magic[t].user, !.tok = t, !.todo = <<"use">>])
  /\ past' = [past EXCEPT !.overlapped = IF Verifying(t) = {} THEN @ ELSE @ \cup {t}]
  /\ UNCHANGED <<company, contact, row, made, issued, magic, mail>>

useAuthToken(w) ==
  LET t == job[w].tok
  IN /\ At(w, "use")
     /\ IF t \in DOMAIN magic
          THEN magic' = [magic EXCEPT ![t].used = TRUE] /\ Plan(w, <<"session">>)
          ELSE Finish(w) /\ UNCHANGED magic
     /\ UNCHANGED <<company, contact, row, made, issued, mail, past>>

\* findOne and login: the account may be gone; the link is used up anyway.
login(w) ==
  LET u == job[w].user
      t == job[w].tok
  IN /\ At(w, "session")
     /\ past' = [past EXCEPT !.signins[t] =
                   IF u \in DOMAIN row /\ @ < 2 THEN @ + 1 ELSE @]
     /\ Finish(w)
     /\ UNCHANGED <<company, contact, row, made, issued, magic, mail>>

forgotPassword(e) ==
  /\ \E u \in ByEmail(e) : row' = [row EXCEPT ![u].reset = TRUE]
  /\ UNCHANGED <<company, contact, made, issued, magic, mail, job, past>>

resetPassword(w, u) ==
  /\ u \in DOMAIN row
  /\ row[u].reset
  /\ Begin(w, [Idle EXCEPT !.user = u, !.todo = <<"renew">>])
  /\ UNCHANGED <<company, contact, row, made, issued, magic, mail, past>>

\* The account is activated, and its invite stays as it is.
renewPassword(w) ==
  LET u == job[w].user
  IN /\ At(w, "renew")
     /\ IF u \in DOMAIN row
          THEN /\ row' = [row EXCEPT ![u].pw = "reset", ![u].reset = FALSE, ![u].activated = TRUE]
               /\ Touch(w, u)
          ELSE UNCHANGED <<row, past>>
     /\ Finish(w)
     /\ UNCHANGED <<company, contact, made, issued, magic, mail>>

-----------------------------------------------------------------------------
(* Accounts that are nobody's client: self-registration, accounts made by   *)
(* an admin, and aggregators with the password they are mailed.             *)

NewAccount(e, role) ==
  [email |-> e, role |-> role, co |-> "none", pw |-> "set", invite |-> 0, reset |-> FALSE,
   activated |-> TRUE]

\* Two of these for one email: the second insert fails, as if it had come later.
InsertOwn(e, role) ==
  /\ ByEmail(e) = {}
  /\ made < MaxUser
  /\ made' = made + 1
  /\ row' = [u \in DOMAIN row \cup {made + 1} |->
               IF u = made + 1 THEN NewAccount(e, role) ELSE row[u]]
  /\ UNCHANGED <<company, contact, issued, magic, mail, job, past>>

register(e) == InsertOwn(e, "USER")

createAggregator(e) == InsertOwn(e, "AGGREGATOR")

\* The password is the default again, which the email says.
resendAggregatorInvite(u) ==
  /\ u \in DOMAIN row /\ row[u].role = "AGGREGATOR"
  /\ row' = [row EXCEPT ![u].pw = "set", ![u].activated = TRUE, ![u].invite = 0]
  /\ past' = [past EXCEPT !.raced = IF \E w \in Worker : job[w].user = u
                                      THEN @ \cup {u} ELSE @]
  /\ UNCHANGED <<company, contact, made, issued, magic, mail, job>>

-----------------------------------------------------------------------------
Past == [contacts : [Company -> SUBSET Email], \* every contact a company has had
         invited  : SUBSET Company,  \* whose client has been looked up
         raced    : SUBSET User,     \* written by one request under another
         overlapped : SUBSET Token,  \* sign-in links that two requests had at once
         signins  : [Token -> 0..2]] \* sessions given for a sign-in link

Init ==
  /\ company = [c \in Company |-> "none"]
  /\ contact = FirstContact
  /\ row = <<>> /\ made = 0
  /\ issued = 0
  /\ magic = <<>>
  /\ mail = {}
  /\ job = [w \in Worker |-> Idle]
  /\ past = [contacts |-> [c \in Company |-> {FirstContact[c]}], invited |-> {}, raced |-> {},
             overlapped |-> {}, signins |-> [t \in Token |-> 0]]

ClientProfiles(w, c) ==
  \/ create(w, c)
  \/ remove(w, c)
  \/ resendInvite(w, c)
  \/ sendInviteAfterPaymentIfNeeded(w, c)

Companies(c) == createCompany(c) \/ \E e \in Email : updateMyCompany(c, e)

Auth(w) ==
  \/ \E t \in Token : setPassword(w, t) \/ verifyLogin(w, t)
  \/ \E u \in User : resetPassword(w, u)

AtOnce ==
  \/ \E e \in Email : requestLogin(e) \/ forgotPassword(e)
  \/ \E e \in SelfMade : register(e) \/ createAggregator(e)
  \/ \E u \in User : resendAggregatorInvite(u)

Step(w) ==
  \/ findLinkedUsers(w) \/ disconnectUsers(w) \/ deleteCompany(w) \/ deleteUsers(w)
  \/ findContact(w) \/ relinkUser(w) \/ insertClient(w) \/ sendInvite(w)
  \/ findClient(w) \/ findByEmail(w) \/ adoptUser(w) \/ reissueInvite(w)
  \/ activateAccount(w) \/ useAuthToken(w) \/ login(w) \/ renewPassword(w)

Next ==
  \/ \E w \in Worker : Step(w) \/ Auth(w) \/ \E c \in Company : ClientProfiles(w, c)
  \/ AtOnce
  \/ \E c \in Company : Companies(c)

Spec == Init /\ [][Next]_vars

-----------------------------------------------------------------------------
(* Properties.                                                             *)

Account == [email : Email, role : {"CLIENT", "USER", "AGGREGATOR"},
            co : Company \cup {"none"}, pw : {"none", "set", "reset"},
            invite : 0..MaxToken, reset : BOOLEAN,
            activated : BOOLEAN]

\* Every variable has its type; no two accounts have one email or one link, and
\* an account that is activated has a password.
TypeOK ==
  /\ company \in [Company -> {"none", "here", "gone"}]
  /\ contact \in [Company -> Email]
  /\ made \in 0..MaxUser /\ issued \in 0..MaxToken
  /\ DOMAIN row \subseteq User
  /\ \A u \in DOMAIN row : /\ row[u] \in Account
                           /\ row[u].activated => row[u].pw # "none"
  /\ \A u, v \in DOMAIN row : u # v => /\ row[u].email # row[v].email
                                       /\ row[u].invite # 0 => row[u].invite # row[v].invite
  /\ DOMAIN magic \subseteq Token
  /\ mail \subseteq [tok : Token, user : User, co : Company]
  /\ past \in Past

\* A sign-in link gives one session, unless two requests looked it up before
\* either marked it used (verifyLogin finds and updates in two statements).
LinkUsedOnce == \A t \in Token \ past.overlapped : past.signins[t] <= 1

\* Once a client has set a password the invite is spent: an activated account
\* has a live invite only after a password reset, which leaves it, or if a
\* resend ran under the request that set the password.
InviteSpent ==
  \A u \in DOMAIN row : row[u].activated /\ row[u].invite # 0
                        => row[u].pw = "reset" \/ u \in past.raced

\* The newest invite in a client's mailbox works until it is used: whatever
\* requests come after one another, an older link never replaces it.
NewestInviteWorks ==
  \A u \in DOMAIN row \ past.raced :
    LET T == {m.tok : m \in {n \in mail : n.user = u}}
    IN T # {} /\ ~row[u].activated => row[u].invite >= Max(T)

\* An invite works until it is used and no longer: its link makes the account's
\* password once, and an older one never comes back.
InviteWorksOnce == InviteSpent /\ NewestInviteWorks

\* Once its client has been looked up, a company has an account whose email
\* is a contact of it and that is activated or has an invite to activate it: it
\* is lost only with another company that had the same contact and has been
\* removed.
CompanyHasAccount ==
  \A c \in past.invited :
    /\ company[c] = "here"
    /\ \A w \in Worker : job[w].co # c
    /\ \A d \in Company : past.contacts[d] \cap past.contacts[c] # {} => company[d] # "gone"
    => \E u \in DOMAIN row : /\ row[u].email \in past.contacts[c]
                             /\ row[u].activated \/ row[u].invite # 0

=============================================================================
