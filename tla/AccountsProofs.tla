---------------------------- MODULE AccountsProofs ----------------------------
(***************************************************************************)
(* Proofs about Accounts: whatever requests interleave, an account that is *)
(* not written by two of them at once has one live invite at most, the     *)
(* newest, a sign-in link gives one session, and a company whose client    *)
(* has been looked up has an account that can be entered.                  *)
(***************************************************************************)
EXTENDS Accounts, SequenceTheorems, WellFoundedInduction, TLAPS

-----------------------------------------------------------------------------
(* The inductive invariant.                                                *)

\* The step lists that requests have left, by what is about to happen.
Looking   == {<<"find">>, <<"client">>, <<"byemail">>}
Inserting == {<<"insert", "mail">>}
Relinking == {<<"relink", "mail">>}
Adopting  == {<<"adopt">>, <<"adopt", "reissue", "mail">>}
Reissuing == {<<"reissue", "mail">>}
Mailing   == {<<"mail">>}
Dropping  == {<<"unlink", "drop", "delete">>, <<"drop", "delete">>}
Deleting  == {<<"delete">>}
SigningIn == {<<"use">>, <<"session">>}
Entering  == {<<"activate">>, <<"renew">>}

OfCompany == Looking \cup Inserting \cup Relinking \cup Adopting \cup Reissuing
             \cup Mailing \cup {<<"linked">>} \cup Dropping \cup Deleting

Todos == OfCompany \cup SigningIn \cup Entering \cup {<<>>}

\* ... that link an account to a company, or are about to remove it with one.
Linking == Relinking \cup Adopting \cup Dropping \cup Deleting

\* ... that are about to write a link into an account.
Inviting == Relinking \cup Reissuing \cup {<<"adopt", "reissue", "mail">>}

Job == [todo : Todos, co : Company \cup {"none"}, to : Email \cup {"none"},
        user : 0..MaxUser, tok : 0..MaxToken]

Typed == TypeOK /\ job \in [Worker -> Job]

\* What a request knows fits what it has left to do.
Fields ==
  \A w \in Worker :
    /\ job[w].user <= made /\ job[w].tok <= issued
    /\ job[w].todo \in OfCompany => job[w].co \in Company /\ company[job[w].co] # "none"
    /\ job[w].todo \in Looking \cup Inserting => job[w].to \in past.contacts[job[w].co]
    /\ job[w].todo \in Inserting \cup Relinking \cup Mailing \cup SigningIn => job[w].tok # 0
    /\ job[w].todo \in Relinking \cup Adopting \cup Reissuing \cup Mailing => job[w].user # 0
    /\ job[w].todo \in Deleting => company[job[w].co] = "gone"

\* Ids and links are numbered as they are made.
Numbered ==
  /\ DOMAIN row \subseteq 1..made
  /\ \A u \in DOMAIN row : row[u].invite <= issued
  /\ DOMAIN magic \subseteq 1..issued
  /\ \A t \in DOMAIN magic : magic[t] \in [user : 1..made, used : BOOLEAN]
  /\ \A m \in mail : m.user <= made

\* A link that is drawn and not written yet is in no account and with no other request.
Fresh ==
  \A w \in Worker : job[w].todo \in Inserting \cup Relinking =>
    /\ \A u \in DOMAIN row : row[u].invite # job[w].tok
    /\ \A v \in Worker : job[v].todo \in Inserting \cup Relinking /\ job[v].tok = job[w].tok
                           => v = w

\* Every account can be entered; one that is linked has a contact of its company.
Enterable == \A u \in DOMAIN row : row[u].activated \/ row[u].invite # 0

Linked ==
  /\ \A c \in Company : contact[c] \in past.contacts[c]
  /\ \A u \in DOMAIN row : row[u].co # "none" => row[u].email \in past.contacts[row[u].co]
  /\ \A w \in Worker : job[w].todo \in Linking /\ job[w].user \in DOMAIN row
                         => row[job[w].user].email \in past.contacts[job[w].co]

\* A sign-in link is with one request at a time, and never usable once it gave a session.
SignIns ==
  \A t \in Token :
    /\ t > issued => past.signins[t] = 0
    /\ t \notin past.overlapped =>
         /\ \A v, w \in Verifying(t) : v = w
         /\ past.signins[t] <= 1
         /\ past.signins[t] = 1 => Verifying(t) = {} /\ ~Usable(t)
         /\ \A w \in Worker : job[w].todo = <<"session">> /\ job[w].tok = t => ~Usable(t)

\* A request that will write a link found the account not activated; if it is by now,
\* the request that activated it ran under this one.
Spent ==
  /\ InviteSpent
  /\ \A w \in Worker :
       job[w].todo \in Inviting /\ job[w].user \in DOMAIN row /\ row[job[w].user].activated
         => job[w].user \in past.raced

\* Nothing older than what an account holds will be written, nothing newer was mailed.
Newest ==
  \A u \in DOMAIN row \ past.raced : ~row[u].activated =>
    /\ \A m \in mail : m.user = u => m.tok <= row[u].invite
    /\ \A w \in Worker : job[w].user = u =>
         /\ job[w].todo \in Mailing => job[w].tok <= row[u].invite
         /\ job[w].todo \in Relinking => row[u].invite <= job[w].tok

\* None of the companies that a company shares a contact with is gone.
Kept(c) ==
  \A d \in Company : past.contacts[d] \cap past.contacts[c] # {} => company[d] # "gone"

Present(c) == \E u \in DOMAIN row : row[u].email \in past.contacts[c]

\* A company whose client has been looked up has an account or is about to get one.
Invited ==
  \A c \in past.invited : Kept(c) =>
    Present(c) \/ \E w \in Worker : job[w].todo \in Inserting /\ job[w].co = c

IInv == /\ Typed /\ Fields /\ Numbered /\ Fresh /\ Enterable /\ Linked
        /\ SignIns /\ Spent /\ Newest /\ Invited

-----------------------------------------------------------------------------
(* Step lists.                                                             *)

\* Which lists begin with a step, and what is left of them.
LEMMA Heads ==
  ASSUME NEW t \in Todos
  PROVE  /\ t # <<>> /\ Head(t) = "linked" => t = <<"linked">>
         /\ t # <<>> /\ Head(t) = "unlink" => t = <<"unlink", "drop", "delete">>
         /\ t # <<>> /\ Head(t) = "drop" => t = <<"drop", "delete">>
         /\ t # <<>> /\ Head(t) = "delete" => t = <<"delete">>
         /\ t # <<>> /\ Head(t) = "find" => t = <<"find">>
         /\ t # <<>> /\ Head(t) = "relink" => t = <<"relink", "mail">>
         /\ t # <<>> /\ Head(t) = "insert" => t = <<"insert", "mail">>
         /\ t # <<>> /\ Head(t) = "mail" => t = <<"mail">>
         /\ t # <<>> /\ Head(t) = "client" => t = <<"client">>
         /\ t # <<>> /\ Head(t) = "byemail" => t = <<"byemail">>
         /\ t # <<>> /\ Head(t) = "adopt" => t \in Adopting
         /\ t # <<>> /\ Head(t) = "reissue" => t = <<"reissue", "mail">>
         /\ t # <<>> /\ Head(t) = "activate" => t = <<"activate">>
         /\ t # <<>> /\ Head(t) = "use" => t = <<"use">>
         /\ t # <<>> /\ Head(t) = "session" => t = <<"session">>
         /\ t # <<>> /\ Head(t) = "renew" => t = <<"renew">>
<1>1. CASE t \in Looking \cup Inserting \cup Relinking
  BY <1>1 DEF Looking, Inserting, Relinking
<1>2. CASE t \in Adopting
  BY <1>2 DEF Adopting
<1>3. CASE t \in Reissuing \cup Mailing \cup {<<"linked">>}
  BY <1>3 DEF Reissuing, Mailing
<1>4. CASE t \in Dropping \cup Deleting
  BY <1>4 DEF Dropping, Deleting
<1>5. CASE t \in SigningIn \cup Entering \cup {<<>>}
  BY <1>5 DEF SigningIn, Entering
<1> QED BY <1>1, <1>2, <1>3, <1>4, <1>5 DEF Todos, OfCompany

LEMMA Tails ==
  /\ Tail(<<"unlink", "drop", "delete">>) = <<"drop", "delete">>
  /\ Tail(<<"drop", "delete">>) = <<"delete">> /\ Tail(<<"delete">>) = <<>>
  /\ Tail(<<"relink", "mail">>) = <<"mail">> /\ Tail(<<"insert", "mail">>) = <<"mail">>
  /\ Tail(<<"mail">>) = <<>>
  /\ Tail(<<"adopt">>) = <<>>
  /\ Tail(<<"adopt", "reissue", "mail">>) = <<"reissue", "mail">>
  /\ Tail(<<"reissue", "mail">>) = <<"mail">>
OBVIOUS

\* What a worker serves next: another step of its request, or nothing.
Serves(w, todo, co, to, user, tok) ==
  /\ job' \in [Worker -> Job]
  /\ \A v \in Worker : v # w => job'[v] = job[v]
  /\ job'[w] = [todo |-> todo, co |-> co, to |-> to, user |-> user, tok |-> tok]

Ends(w) == Serves(w, <<>>, "none", "none", 0, 0)

LEMMA JobTyped ==
  ASSUME Typed, NEW w \in Worker
  PROVE  /\ job[w] \in Job /\ job[w].todo \in Todos
         /\ job[w].co \in Company \cup {"none"} /\ job[w].to \in Email \cup {"none"}
         /\ job[w].user \in Nat /\ job[w].tok \in Nat
         /\ job[w].user \in 0..MaxUser /\ job[w].tok \in 0..MaxToken
         /\ made \in Nat /\ issued \in Nat
BY AccountsAssumption DEF Typed, Job, TypeOK

LEMMA Finishes ==
  ASSUME Typed, NEW w \in Worker, Finish(w)
  PROVE  Ends(w)
<1>1. Idle \in Job
  BY AccountsAssumption DEF Idle, Job, Todos
<1> QED BY <1>1 DEF Finish, Ends, Serves, Typed, Idle

LEMMA Becomes ==
  ASSUME Typed, NEW w \in Worker, NEW j \in Job, Become(w, j)
  PROVE  IF j.todo = <<>> THEN Ends(w)
         ELSE Serves(w, j.todo, j.co, j.to, j.user, j.tok)
<1>1. CASE j.todo = <<>>
  BY <1>1, Finishes DEF Become, Finish
<1>2. CASE j.todo # <<>>
  <2>1. j = [todo |-> j.todo, co |-> j.co, to |-> j.to, user |-> j.user, tok |-> j.tok]
    BY DEF Job
  <2> QED BY <1>2, <2>1 DEF Become, Serves, Typed
<1> QED BY <1>1, <1>2

LEMMA Plans ==
  ASSUME Typed, NEW w \in Worker, NEW t \in Todos \ {<<>>}, Plan(w, t)
  PROVE  Serves(w, t, job[w].co, job[w].to, job[w].user, job[w].tok)
<1> DEFINE j == [job[w] EXCEPT !.todo = t]
<1>1. j \in Job /\ j.todo = t /\ j.co = job[w].co /\ j.to = job[w].to
        /\ j.user = job[w].user /\ j.tok = job[w].tok
  BY JobTyped DEF Job
<1>2. Become(w, j)
  BY DEF Plan
<1> HIDE DEF j
<1> QED BY <1>1, <1>2, Becomes

LEMMA Proceeds ==
  ASSUME Typed, NEW w \in Worker, Proceed(w), Tail(job[w].todo) \in Todos
  PROVE  IF Tail(job[w].todo) = <<>> THEN Ends(w)
         ELSE Serves(w, Tail(job[w].todo), job[w].co, job[w].to, job[w].user, job[w].tok)
<1> DEFINE t == Tail(job[w].todo)
           j == [job[w] EXCEPT !.todo = t]
<1> HIDE DEF t
<1>1. j \in Job /\ j.todo = t /\ j.co = job[w].co /\ j.to = job[w].to
        /\ j.user = job[w].user /\ j.tok = job[w].tok
  BY JobTyped DEF Job, t
<1>2. Become(w, j)
  BY DEF Proceed, t
<1> HIDE DEF j
<1> QED BY <1>1, <1>2, Becomes DEF t

\* A request goes on with an account and a link.
LEMMA GoesOn ==
  ASSUME Typed, NEW w \in Worker, NEW t \in Todos \ {<<>>}, NEW u \in 0..MaxUser,
         NEW k \in 0..MaxToken, NEW j \in Job, j.co = job[w].co, j.to = job[w].to,
         j.user = u, j.tok = k, Become(w, [j EXCEPT !.todo = t])
  PROVE  Serves(w, t, job[w].co, job[w].to, u, k)
<1> DEFINE i == [j EXCEPT !.todo = t]
<1>1. i \in Job /\ i.todo = t /\ i.co = job[w].co /\ i.to = job[w].to
        /\ i.user = u /\ i.tok = k
  BY DEF Job
<1> HIDE DEF i
<1>2. Become(w, i)
  BY DEF i
<1> QED BY <1>1, <1>2, Becomes

LEMMA Begins ==
  ASSUME Typed, NEW w \in Worker, NEW j \in Job, Begin(w, j)
  PROVE  Serves(w, j.todo, j.co, j.to, j.user, j.tok)
<1>1. j = [todo |-> j.todo, co |-> j.co, to |-> j.to, user |-> j.user, tok |-> j.tok]
  BY DEF Job
<1> QED BY <1>1 DEF Begin, Serves, Typed

-----------------------------------------------------------------------------
(* What the steps do to the requests.                                      *)

\* What a request knows next, its company and contact as they were.
Goes(w, todo, user, tok) == Serves(w, todo, job[w].co, job[w].to, user, tok)

\* The requests of the endpoints, written out.
LEMMA RemovalRequest ==
  ASSUME NEW c, NEW t
  PROVE  [Idle EXCEPT !.co = c, !.todo = t]
           = [todo |-> t, co |-> c, to |-> "none", user |-> 0, tok |-> 0]
<1> DEFINE a == [Idle EXCEPT !.co = c]
<1>1. [Idle EXCEPT !.co = c, !.todo = t] = [a EXCEPT !.todo = t]
  OBVIOUS
<1>2. a = [todo |-> <<>>, co |-> c, to |-> "none", user |-> 0, tok |-> 0]
  BY DEF Idle
<1> HIDE DEF a
<1>3. [a EXCEPT !.todo = t] = [todo |-> t, co |-> c, to |-> "none", user |-> 0, tok |-> 0]
  BY <1>2
<1> QED BY <1>1, <1>3

LEMMA LinkRequest ==
  ASSUME NEW u, NEW k, NEW t
  PROVE  [Idle EXCEPT !.user = u, !.tok = k, !.todo = t]
           = [todo |-> t, co |-> "none", to |-> "none", user |-> u, tok |-> k]
<1> DEFINE a == [Idle EXCEPT !.user = u]
           b == [a EXCEPT !.tok = k]
<1>1. [Idle EXCEPT !.user = u, !.tok = k, !.todo = t] = [b EXCEPT !.todo = t]
  OBVIOUS
<1>2. a = [todo |-> <<>>, co |-> "none", to |-> "none", user |-> u, tok |-> 0]
  BY DEF Idle
<1> HIDE DEF a
<1>3. b = [todo |-> <<>>, co |-> "none", to |-> "none", user |-> u, tok |-> k]
  BY <1>2
<1> HIDE DEF b
<1>4. [b EXCEPT !.todo = t] = [todo |-> t, co |-> "none", to |-> "none", user |-> u, tok |-> k]
  BY <1>3
<1> QED BY <1>1, <1>4

LEMMA ResetRequest ==
  ASSUME NEW u, NEW t
  PROVE  [Idle EXCEPT !.user = u, !.todo = t]
           = [todo |-> t, co |-> "none", to |-> "none", user |-> u, tok |-> 0]
<1> DEFINE a == [Idle EXCEPT !.user = u]
<1>1. [Idle EXCEPT !.user = u, !.todo = t] = [a EXCEPT !.todo = t]
  OBVIOUS
<1>2. a = [todo |-> <<>>, co |-> "none", to |-> "none", user |-> u, tok |-> 0]
  BY DEF Idle
<1> HIDE DEF a
<1>3. [a EXCEPT !.todo = t] = [todo |-> t, co |-> "none", to |-> "none", user |-> u, tok |-> 0]
  BY <1>2
<1> QED BY <1>1, <1>3

\* Requests that begin.
LEMMA BeginsDoes ==
  ASSUME Typed, Numbered, NEW w \in Worker
  PROVE  /\ \A c \in Company :
              /\ create(w, c) => Serves(w, <<"find">>, c, contact[c], 0, 0)
              /\ resendInvite(w, c) => Serves(w, <<"client">>, c, contact[c], 0, 0)
              /\ remove(w, c) => Serves(w, <<"linked">>, c, "none", 0, 0)
         /\ \A t \in Token :
              /\ setPassword(w, t) => \E u \in DOMAIN row :
                   Serves(w, <<"activate">>, "none", "none", u, t)
              /\ verifyLogin(w, t) => Serves(w, <<"use">>, "none", "none", magic[t].user, t)
         /\ \A u \in User : resetPassword(w, u) => Serves(w, <<"renew">>, "none", "none", u, 0)
<1> DEFINE J(todo, co, to, user, tok) ==
             [todo |-> todo, co |-> co, to |-> to, user |-> user, tok |-> tok]
<1>0. 0 \in 0..MaxUser /\ 0 \in 0..MaxToken /\ User \subseteq 0..MaxUser
        /\ Token \subseteq 0..MaxToken /\ contact \in [Company -> Email]
        /\ DOMAIN row \subseteq User
  BY AccountsAssumption DEF User, Token, Typed, TypeOK
<1>1. ASSUME NEW c \in Company, create(w, c)
      PROVE  Serves(w, <<"find">>, c, contact[c], 0, 0)
  <2> DEFINE e == contact[c]
             a == [Idle EXCEPT !.co = c]
             b == [a EXCEPT !.to = e]
             q == [b EXCEPT !.todo = <<"find">>]
  <2>1. Begin(w, q)
    BY <1>1 DEF create
  <2>2. e \in Email
    BY <1>0
  <2>3. a = J(<<>>, c, "none", 0, 0)
    BY DEF Idle
  <2> HIDE DEF a, e
  <2>4. b = J(<<>>, c, e, 0, 0)
    BY <2>3
  <2> HIDE DEF b
  <2>5. q = J(<<"find">>, c, e, 0, 0)
    BY <2>4
  <2> HIDE DEF q
  <2>6. q \in Job
    BY <1>0, <2>2, <2>5 DEF Job, Todos, OfCompany, Looking
  <2> QED BY <2>1, <2>5, <2>6, Begins DEF e
<1>2. ASSUME NEW c \in Company, resendInvite(w, c)
      PROVE  Serves(w, <<"client">>, c, contact[c], 0, 0)
  <2> DEFINE e == contact[c]
             a == [Idle EXCEPT !.co = c]
             b == [a EXCEPT !.to = e]
             q == [b EXCEPT !.todo = <<"client">>]
  <2>1. Begin(w, q)
    BY <1>2 DEF resendInvite
  <2>2. e \in Email
    BY <1>0
  <2>3. a = J(<<>>, c, "none", 0, 0)
    BY DEF Idle
  <2> HIDE DEF a, e
  <2>4. b = J(<<>>, c, e, 0, 0)
    BY <2>3
  <2> HIDE DEF b
  <2>5. q = J(<<"client">>, c, e, 0, 0)
    BY <2>4
  <2> HIDE DEF q
  <2>6. q \in Job
    BY <1>0, <2>2, <2>5 DEF Job, Todos, OfCompany, Looking
  <2> QED BY <2>1, <2>5, <2>6, Begins DEF e
<1>3. ASSUME NEW c \in Company, remove(w, c)
      PROVE  Serves(w, <<"linked">>, c, "none", 0, 0)
  <2> DEFINE q == [Idle EXCEPT !.co = c, !.todo = <<"linked">>]
  <2>1. Begin(w, q)
    BY <1>3 DEF remove
  <2>2. q = J(<<"linked">>, c, "none", 0, 0)
    BY RemovalRequest
  <2> HIDE DEF q
  <2>3. q \in Job
    BY <1>0, <2>2 DEF Job, Todos, OfCompany
  <2> QED BY <2>1, <2>2, <2>3, Begins
<1>4. ASSUME NEW t \in Token, setPassword(w, t)
      PROVE  \E u \in DOMAIN row : Serves(w, <<"activate">>, "none", "none", u, t)
  <2>0. PICK u \in DOMAIN row :
          Begin(w, [Idle EXCEPT !.user = u, !.tok = t, !.todo = <<"activate">>])
    BY <1>4 DEF setPassword
  <2> DEFINE q == [Idle EXCEPT !.user = u, !.tok = t, !.todo = <<"activate">>]
  <2>1. Begin(w, q)
    BY <2>0
  <2>2. q = J(<<"activate">>, "none", "none", u, t)
    BY LinkRequest
  <2> HIDE DEF q
  <2>3. q \in Job
    BY <1>0, <2>2 DEF Job, Todos, Entering
  <2> QED BY <2>1, <2>2, <2>3, Begins
<1>5. ASSUME NEW t \in Token, verifyLogin(w, t)
      PROVE  Serves(w, <<"use">>, "none", "none", magic[t].user, t)
  <2> DEFINE u == magic[t].user
             q == [Idle EXCEPT !.user = u, !.tok = t, !.todo = <<"use">>]
  <2>0. u \in 1..made /\ made \in 0..MaxUser
    BY <1>5 DEF verifyLogin, Usable, Numbered, Typed, TypeOK
  <2>1. Begin(w, q)
    BY <1>5 DEF verifyLogin
  <2> HIDE DEF u
  <2>2. q = J(<<"use">>, "none", "none", u, t)
    BY LinkRequest
  <2> HIDE DEF q
  <2>3. u \in 0..MaxUser
    BY <2>0, AccountsAssumption
  <2>4. q \in Job
    BY <1>0, <2>2, <2>3 DEF Job, Todos, SigningIn
  <2> QED BY <2>1, <2>2, <2>4, Begins DEF u
<1>6. ASSUME NEW u \in User, resetPassword(w, u)
      PROVE  Serves(w, <<"renew">>, "none", "none", u, 0)
  <2> DEFINE q == [Idle EXCEPT !.user = u, !.todo = <<"renew">>]
  <2>1. Begin(w, q)
    BY <1>6 DEF resetPassword
  <2>2. q = J(<<"renew">>, "none", "none", u, 0)
    BY ResetRequest
  <2> HIDE DEF q
  <2>3. q \in Job
    BY <1>0, <2>2 DEF Job, Todos, Entering
  <2> QED BY <2>1, <2>2, <2>3, Begins
<1> QED BY <1>1, <1>2, <1>3, <1>4, <1>5, <1>6

LEMMA AtDoes ==
  ASSUME Typed, NEW w \in Worker
  PROVE  /\ At(w, "linked") => job[w].todo = <<"linked">>
         /\ At(w, "unlink") => job[w].todo = <<"unlink", "drop", "delete">>
         /\ At(w, "drop") => job[w].todo = <<"drop", "delete">>
         /\ At(w, "delete") => job[w].todo = <<"delete">>
         /\ At(w, "find") => job[w].todo = <<"find">>
         /\ At(w, "relink") => job[w].todo = <<"relink", "mail">>
         /\ At(w, "insert") => job[w].todo = <<"insert", "mail">>
         /\ At(w, "mail") => job[w].todo = <<"mail">>
         /\ At(w, "client") => job[w].todo = <<"client">>
         /\ At(w, "byemail") => job[w].todo = <<"byemail">>
         /\ At(w, "adopt") => job[w].todo \in Adopting
         /\ At(w, "reissue") => job[w].todo = <<"reissue", "mail">>
         /\ At(w, "activate") => job[w].todo = <<"activate">>
         /\ At(w, "use") => job[w].todo = <<"use">>
         /\ At(w, "session") => job[w].todo = <<"session">>
         /\ At(w, "renew") => job[w].todo = <<"renew">>
BY JobTyped, Heads DEF At

\* A step that ends the request, or goes on to the next of its list.
LEMMA StepDoes ==
  ASSUME Typed, NEW w \in Worker
  PROVE  /\ disconnectUsers(w) => Goes(w, <<"drop", "delete">>, job[w].user, job[w].tok)
         /\ deleteCompany(w) =>
              IF company[job[w].co] = "gone" THEN Ends(w)
              ELSE Goes(w, <<"delete">>, job[w].user, job[w].tok)
         /\ deleteUsers(w) => Ends(w)
         /\ sendInvite(w) => Ends(w)
         /\ activateAccount(w) => Ends(w)
         /\ login(w) => Ends(w)
         /\ renewPassword(w) => Ends(w)
         /\ relinkUser(w) =>
              IF job[w].user \in DOMAIN row /\ company[job[w].co] = "here"
                THEN Goes(w, <<"mail">>, job[w].user, job[w].tok) ELSE Ends(w)
         /\ adoptUser(w) =>
              \/ Ends(w)
              \/ /\ job[w].todo = <<"adopt", "reissue", "mail">>
                 /\ Goes(w, <<"reissue", "mail">>, job[w].user, job[w].tok)
         /\ useAuthToken(w) =>
              IF job[w].tok \in DOMAIN magic
                THEN Goes(w, <<"session">>, job[w].user, job[w].tok) ELSE Ends(w)
<1> USE DEF Todos, OfCompany, Dropping, Deleting, Mailing, SigningIn, Reissuing
<1>0. ASSUME Proceed(w)
      PROVE  /\ job[w].todo = <<"unlink", "drop", "delete">>
                  => Goes(w, <<"drop", "delete">>, job[w].user, job[w].tok)
             /\ job[w].todo = <<"drop", "delete">>
                  => Goes(w, <<"delete">>, job[w].user, job[w].tok)
             /\ job[w].todo = <<"relink", "mail">>
                  => Goes(w, <<"mail">>, job[w].user, job[w].tok)
  <2>1. /\ <<"drop", "delete">> \in Todos /\ <<"delete">> \in Todos /\ <<"mail">> \in Todos
        /\ <<"drop", "delete">> # <<>> /\ <<"delete">> # <<>> /\ <<"mail">> # <<>>
    OBVIOUS
  <2> USE <1>0, <2>1, Proceeds, Tails DEF Goes
  <2>2. CASE job[w].todo = <<"unlink", "drop", "delete">>
    BY <2>2
  <2>3. CASE job[w].todo = <<"drop", "delete">>
    BY <2>3
  <2>4. CASE job[w].todo = <<"relink", "mail">>
    BY <2>4
  <2> QED BY <2>2, <2>3, <2>4
<1>1. disconnectUsers(w) => Goes(w, <<"drop", "delete">>, job[w].user, job[w].tok)
  BY <1>0, AtDoes DEF disconnectUsers
<1>2. deleteCompany(w) => IF company[job[w].co] = "gone" THEN Ends(w)
                          ELSE Goes(w, <<"delete">>, job[w].user, job[w].tok)
  BY <1>0, AtDoes, Finishes DEF deleteCompany
<1>3. deleteUsers(w) \/ sendInvite(w) => Ends(w)
  BY AtDoes, Tails, Proceeds DEF deleteUsers, sendInvite
<1>4. activateAccount(w) \/ login(w) \/ renewPassword(w) => Ends(w)
  BY Finishes DEF activateAccount, login, renewPassword
<1>5. relinkUser(w) => IF job[w].user \in DOMAIN row /\ company[job[w].co] = "here"
                         THEN Goes(w, <<"mail">>, job[w].user, job[w].tok) ELSE Ends(w)
  BY <1>0, AtDoes, Finishes DEF relinkUser
<1>6. adoptUser(w) => \/ Ends(w)
                      \/ /\ job[w].todo = <<"adopt", "reissue", "mail">>
                         /\ Goes(w, <<"reissue", "mail">>, job[w].user, job[w].tok)
  <2> SUFFICES ASSUME adoptUser(w), ~Ends(w)
               PROVE  /\ job[w].todo = <<"adopt", "reissue", "mail">>
                      /\ Goes(w, <<"reissue", "mail">>, job[w].user, job[w].tok)
    OBVIOUS
  <2>1. Proceed(w) /\ job[w].todo \in Adopting
    BY AtDoes, Finishes DEF adoptUser
  <2>2. job[w].todo # <<"adopt">>
    BY <2>1, Tails, Proceeds
  <2>3. job[w].todo = <<"adopt", "reissue", "mail">>
    BY <2>1, <2>2 DEF Adopting
  <2> QED BY <2>1, <2>3, Tails, Proceeds DEF Goes
<1>7. useAuthToken(w) => IF job[w].tok \in DOMAIN magic
                           THEN Goes(w, <<"session">>, job[w].user, job[w].tok) ELSE Ends(w)
  BY Plans, Finishes DEF useAuthToken, Goes
<1> QED BY <1>1, <1>2, <1>3, <1>4, <1>5, <1>6, <1>7

\* A request whose company, contact and step list stay valid goes on with an account and
\* a link of its own.
LEMMA GoesWith ==
  ASSUME Typed, NEW w \in Worker, NEW t \in Todos \ {<<>>}, NEW u \in 0..MaxUser,
         Become(w, [job[w] EXCEPT !.user = u, !.todo = t])
  PROVE  Goes(w, t, u, job[w].tok)
<1> DEFINE j == [job[w] EXCEPT !.user = u]
<1>1. j \in Job /\ j.co = job[w].co /\ j.to = job[w].to /\ j.user = u /\ j.tok = job[w].tok
  BY JobTyped DEF Job
<1>2. Become(w, [j EXCEPT !.todo = t])
  OBVIOUS
<1> HIDE DEF j
<1> QED BY <1>1, <1>2, JobTyped, GoesOn DEF Goes

LEMMA DrawsLink ==
  ASSUME Typed, NEW w \in Worker, NEW t \in Todos \ {<<>>}, issued < MaxToken
  PROVE  /\ Become(w, [job[w] EXCEPT !.tok = issued + 1, !.todo = t])
              => Goes(w, t, job[w].user, issued + 1)
         /\ \A u \in 0..MaxUser :
              Become(w, [[job[w] EXCEPT !.tok = issued + 1] EXCEPT !.user = u, !.todo = t])
                => Goes(w, t, u, issued + 1)
<1> DEFINE k == issued + 1
           j == [job[w] EXCEPT !.tok = k]
<1>0. k \in 0..MaxToken
  BY AccountsAssumption DEF Typed, TypeOK
<1> HIDE DEF k
<1>1. j \in Job /\ j.co = job[w].co /\ j.to = job[w].to /\ j.user = job[w].user /\ j.tok = k
  BY <1>0, JobTyped DEF Job
<1>2. ASSUME Become(w, [job[w] EXCEPT !.tok = k, !.todo = t])
      PROVE  Goes(w, t, job[w].user, k)
  <2>1. Become(w, [j EXCEPT !.todo = t])
    BY <1>2
  <2> HIDE DEF j
  <2> QED BY <1>0, <1>1, <2>1, JobTyped, GoesOn DEF Goes
<1>3. ASSUME NEW u \in 0..MaxUser,
             Become(w, [[job[w] EXCEPT !.tok = k] EXCEPT !.user = u, !.todo = t])
      PROVE  Goes(w, t, u, k)
  <2> DEFINE i == [j EXCEPT !.user = u]
  <2>1. Become(w, [i EXCEPT !.todo = t])
    BY <1>3
  <2> HIDE DEF j
  <2>2. i \in Job /\ i.co = job[w].co /\ i.to = job[w].to /\ i.user = u /\ i.tok = k
    BY <1>1 DEF Job
  <2> HIDE DEF i
  <2> QED BY <1>0, <2>1, <2>2, GoesOn DEF Goes
<1> QED BY <1>2, <1>3 DEF k

\* The lists that findByEmail puts together.
LEMMA Joined ==
  /\ <<>> \o <<>> = <<>> /\ <<"adopt">> \o <<>> = <<"adopt">>
  /\ <<>> \o <<"reissue", "mail">> = <<"reissue", "mail">>
  /\ <<"adopt">> \o <<"reissue", "mail">> = <<"adopt", "reissue", "mail">>
<1> DEFINE S == {"adopt", "reissue", "mail"}
           s == <<"adopt">>
           t == <<"reissue", "mail">>
           q == <<"adopt", "reissue", "mail">>
<1>1. /\ <<>> \in Seq(S) /\ s \in Seq(S) /\ t \in Seq(S) /\ q \in Seq(S)
      /\ Len(s) = 1 /\ s[1] = "adopt"
      /\ Len(t) = 2 /\ t[1] = "reissue" /\ t[2] = "mail"
      /\ Len(q) = 3 /\ q[1] = "adopt" /\ q[2] = "reissue" /\ q[3] = "mail"
  OBVIOUS
<1> HIDE DEF S, s, t, q
<1>2. <<>> \o <<>> = <<>> /\ s \o <<>> = s /\ <<>> \o t = t
  BY <1>1, ConcatEmptySeq
<1>3. s \o t = q
  <2> DEFINE p == s \o t
  <2>1. /\ p \in Seq(S) /\ Len(p) = Len(s) + Len(t)
        /\ \A i \in 1 .. Len(s) + Len(t) : p[i] = IF i <= Len(s) THEN s[i] ELSE t[i - Len(s)]
    BY <1>1, ConcatProperties
  <2> HIDE DEF p
  <2>2. Len(p) = 3 /\ \A i \in 1 .. 3 : p[i] = IF i <= 1 THEN s[i] ELSE t[i - 1]
    BY <1>1, <2>1
  <2>3. p[1] = s[1] /\ p[2] = t[1] /\ p[3] = t[2]
    BY <2>2
  <2>4. \A i \in 1 .. Len(p) : p[i] = q[i]
    BY <1>1, <2>2, <2>3
  <2>5. p = q
    BY <1>1, <2>1, <2>2, <2>4, SeqEqual
  <2> QED BY <2>5 DEF p
<1> QED BY <1>2, <1>3 DEF s, t, q

LEMMA LookupDoes ==
  ASSUME Typed, NEW w \in Worker
  PROVE  /\ findLinkedUsers(w) =>
              \E u \in {0} \cup {v \in DOMAIN row : row[v].co = job[w].co} :
                Goes(w, <<"unlink", "drop", "delete">>, u, job[w].tok)
         /\ findContact(w) =>
              \/ Ends(w) /\ \E u \in DOMAIN row : row[u].email = job[w].to
              \/ /\ \A u \in DOMAIN row : row[u].email # job[w].to
                 /\ Goes(w, <<"insert", "mail">>, job[w].user, issued + 1)
              \/ \E u \in DOMAIN row : /\ row[u].email = job[w].to /\ ~row[u].activated
                                       /\ Goes(w, <<"relink", "mail">>, u, issued + 1)
         /\ findClient(w) =>
              \/ Goes(w, <<"byemail">>, job[w].user, job[w].tok)
              \/ Ends(w)
              \/ \E u \in DOMAIN row : /\ ~row[u].activated
                                       /\ Goes(w, <<"reissue", "mail">>, u, job[w].tok)
         /\ findByEmail(w) =>
              \/ Goes(w, <<"find">>, job[w].user, job[w].tok)
              \/ Ends(w)
              \/ \E u \in DOMAIN row :
                   /\ row[u].email = job[w].to
                   /\ \/ Goes(w, <<"adopt">>, u, job[w].tok)
                      \/ /\ ~row[u].activated
                         /\ \E t \in Reissuing \cup {<<"adopt", "reissue", "mail">>} :
                              Goes(w, t, u, job[w].tok)
<1> USE DEF Todos, OfCompany, Looking, Inserting, Relinking, Adopting, Reissuing, Dropping
<1>0. /\ DOMAIN row \subseteq 0..MaxUser /\ 0 \in 0..MaxUser
      /\ \A u \in DOMAIN row : row[u].activated \in BOOLEAN
  BY AccountsAssumption DEF Typed, TypeOK, User, Account
<1>1. ASSUME findLinkedUsers(w)
      PROVE  \E u \in {0} \cup {v \in DOMAIN row : row[v].co = job[w].co} :
               Goes(w, <<"unlink", "drop", "delete">>, u, job[w].tok)
  <2> DEFINE S == {v \in DOMAIN row : row[v].co = job[w].co}
  <2>1. PICK u \in IF S = {} THEN {0} ELSE S :
          Become(w, [job[w] EXCEPT !.user = u, !.todo = <<"unlink", "drop", "delete">>])
    BY <1>1 DEF findLinkedUsers
  <2>2. u \in {0} \cup S /\ u \in 0..MaxUser
    BY <1>0, <2>1
  <2>3. Goes(w, <<"unlink", "drop", "delete">>, u, job[w].tok)
    BY <2>1, <2>2, GoesWith
  <2> QED BY <2>2, <2>3
<1>2. ASSUME findContact(w)
      PROVE  \/ Ends(w) /\ \E u \in DOMAIN row : row[u].email = job[w].to
             \/ /\ \A u \in DOMAIN row : row[u].email # job[w].to
                /\ Goes(w, <<"insert", "mail">>, job[w].user, issued + 1)
             \/ \E u \in DOMAIN row : /\ row[u].email = job[w].to /\ ~row[u].activated
                                      /\ Goes(w, <<"relink", "mail">>, u, issued + 1)
  <2>1. issued < MaxToken
    BY <1>2 DEF findContact
  <2>2. CASE ByEmail(job[w].to) = {}
    <3>1. Become(w, [job[w] EXCEPT !.tok = issued + 1, !.todo = <<"insert", "mail">>])
      BY <1>2, <2>2 DEF findContact
    <3>2. Goes(w, <<"insert", "mail">>, job[w].user, issued + 1)
      BY <2>1, <3>1, DrawsLink
    <3> QED BY <2>2, <3>2 DEF ByEmail
  <2>3. CASE ByEmail(job[w].to) # {}
    <3>1. PICK u \in ByEmail(job[w].to) :
            IF row[u].activated THEN Finish(w)
            ELSE Become(w, [[job[w] EXCEPT !.tok = issued + 1] EXCEPT
                              !.user = u, !.todo = <<"relink", "mail">>])
      BY <1>2, <2>3 DEF findContact
    <3>2. u \in DOMAIN row /\ row[u].email = job[w].to
      BY DEF ByEmail
    <3>3. CASE row[u].activated
      BY <3>1, <3>2, <3>3, Finishes
    <3>4. CASE ~row[u].activated
      <4>1. Become(w, [[job[w] EXCEPT !.tok = issued + 1] EXCEPT
                         !.user = u, !.todo = <<"relink", "mail">>])
        BY <3>1, <3>4
      <4>2. Goes(w, <<"relink", "mail">>, u, issued + 1)
        BY <1>0, <2>1, <3>2, <4>1, DrawsLink
      <4> QED BY <3>2, <3>4, <4>2
    <3> QED BY <3>3, <3>4
  <2> QED BY <2>2, <2>3
<1>3. ASSUME findClient(w)
      PROVE  \/ Goes(w, <<"byemail">>, job[w].user, job[w].tok)
             \/ Ends(w)
             \/ \E u \in DOMAIN row : /\ ~row[u].activated
                                      /\ Goes(w, <<"reissue", "mail">>, u, job[w].tok)
  <2>1. CASE Plan(w, <<"byemail">>)
    BY <2>1, Plans DEF Goes
  <2>2. ASSUME NEW u \in DOMAIN row,
               IF row[u].activated THEN Finish(w)
               ELSE Become(w, [job[w] EXCEPT !.user = u, !.todo = <<"reissue", "mail">>])
        PROVE  \/ Ends(w)
               \/ ~row[u].activated /\ Goes(w, <<"reissue", "mail">>, u, job[w].tok)
    <3>1. CASE row[u].activated
      BY <2>2, <3>1, Finishes
    <3>2. CASE ~row[u].activated
      <4>1. Become(w, [job[w] EXCEPT !.user = u, !.todo = <<"reissue", "mail">>])
        BY <2>2, <3>2
      <4> QED BY <1>0, <3>2, <4>1, GoesWith
    <3> QED BY <3>1, <3>2
  <2> QED BY <1>3, <2>1, <2>2 DEF findClient, ClientsOf
<1>4. ASSUME findByEmail(w)
      PROVE  \/ Goes(w, <<"find">>, job[w].user, job[w].tok)
             \/ Ends(w)
             \/ \E u \in DOMAIN row :
                  /\ row[u].email = job[w].to
                  /\ \/ Goes(w, <<"adopt">>, u, job[w].tok)
                     \/ /\ ~row[u].activated
                        /\ \E t \in Reissuing \cup {<<"adopt", "reissue", "mail">>} :
                             Goes(w, t, u, job[w].tok)
  <2>1. CASE Plan(w, <<"find">>)
    BY <2>1, Plans DEF Goes
  <2>2. CASE ~Plan(w, <<"find">>)
    <3> DEFINE after(u) == IF row[u].activated THEN <<>> ELSE <<"reissue", "mail">>
               t(u) == (IF row[u].co = "none" THEN <<"adopt">> ELSE <<>>) \o after(u)
    <3>1. PICK u \in ByEmail(job[w].to) : Become(w, [job[w] EXCEPT !.user = u, !.todo = t(u)])
      BY <1>4, <2>2 DEF findByEmail
    <3>2. /\ t(u) \in {<<>>, <<"adopt">>} \cup Reissuing \cup {<<"adopt", "reissue", "mail">>}
          /\ row[u].activated => t(u) \in {<<>>, <<"adopt">>}
      <4>1. /\ <<>> \o <<>> = <<>> /\ <<"adopt">> \o <<>> = <<"adopt">>
            /\ <<>> \o <<"reissue", "mail">> = <<"reissue", "mail">>
            /\ <<"adopt">> \o <<"reissue", "mail">> = <<"adopt", "reissue", "mail">>
        BY Joined
      <4> QED BY <4>1
    <3>3. u \in DOMAIN row /\ row[u].email = job[w].to /\ u \in 0..MaxUser
      BY <1>0, <3>1 DEF ByEmail
    <3> HIDE DEF t
    <3>4. CASE t(u) = <<>>
      <4> DEFINE j == [job[w] EXCEPT !.user = u]
                 i == [j EXCEPT !.todo = t(u)]
      <4>1. Become(w, i)
        BY <3>1
      <4>2. j \in Job
        BY <3>3, JobTyped DEF Job
      <4> HIDE DEF j
      <4>3. i \in Job /\ i.todo = <<>>
        BY <3>4, <4>2 DEF Job
      <4> HIDE DEF i
      <4> QED BY <4>1, <4>3, Becomes
    <3>5. CASE t(u) # <<>>
      <4>1. t(u) \in Todos \ {<<>>}
        BY <3>2, <3>5
      <4>2. Goes(w, t(u), u, job[w].tok)
        BY <3>1, <3>3, <4>1, GoesWith
      <4> QED BY <3>2, <3>3, <3>5, <4>2
    <3> QED BY <3>4, <3>5
  <2> QED BY <2>1, <2>2
<1> QED BY <1>1, <1>2, <1>3, <1>4

LEMMA WriteDoes ==
  ASSUME Typed, NEW w \in Worker
  PROVE  /\ insertClient(w) =>
              \/ /\ Ends(w) /\ UNCHANGED <<row, made>>
                 /\ \/ \E u \in DOMAIN row : row[u].email = job[w].to
                    \/ job[w].co # "none" /\ company[job[w].co] # "here"
              \/ /\ made < MaxUser /\ made' = made + 1
                 /\ \A u \in DOMAIN row : row[u].email # job[w].to
                 /\ row' = [u \in DOMAIN row \cup {made + 1} |->
                              IF u = made + 1
                                THEN [email |-> job[w].to, role |-> "CLIENT",
                                      co |-> job[w].co, pw |-> "none",
                                      invite |-> job[w].tok, reset |-> FALSE,
                                      activated |-> FALSE]
                                ELSE row[u]]
                 /\ Goes(w, <<"mail">>, made + 1, job[w].tok)
         /\ reissueInvite(w) =>
              \/ Ends(w) /\ UNCHANGED <<row, past>>
              \/ /\ job[w].user \in DOMAIN row
                 /\ row' = [row EXCEPT ![job[w].user].invite = issued + 1]
                 /\ Touch(w, job[w].user)
                 /\ Goes(w, <<"mail">>, job[w].user, issued + 1)
<1> DEFINE r == [email |-> job[w].to, role |-> "CLIENT", co |-> job[w].co, pw |-> "none",
                 invite |-> job[w].tok, reset |-> FALSE, activated |-> FALSE]
<1>0. <<"mail">> \in Todos \ {<<>>} /\ Tail(<<"insert", "mail">>) = <<"mail">>
        /\ Tail(<<"reissue", "mail">>) = <<"mail">>
  BY DEF Todos, OfCompany, Mailing
<1>1. ASSUME insertClient(w)
      PROVE  \/ /\ Ends(w) /\ UNCHANGED <<row, made>>
                /\ \/ \E u \in DOMAIN row : row[u].email = job[w].to
                   \/ job[w].co # "none" /\ company[job[w].co] # "here"
             \/ /\ made < MaxUser /\ made' = made + 1
                /\ \A u \in DOMAIN row : row[u].email # job[w].to
                /\ row' = [u \in DOMAIN row \cup {made + 1} |->
                             IF u = made + 1 THEN r ELSE row[u]]
                /\ Goes(w, <<"mail">>, made + 1, job[w].tok)
  <2>1. job[w].todo = <<"insert", "mail">> /\ Insert(w, r)
    BY <1>1, AtDoes DEF insertClient
  <2>2. r.email = job[w].to /\ r.co = job[w].co
    OBVIOUS
  <2> HIDE DEF r
  <2>3. CASE ByEmail(r.email) # {} \/ (r.co # "none" /\ company[r.co] # "here")
    <3>1. Finish(w) /\ UNCHANGED <<row, made>>
      BY <2>1, <2>3 DEF Insert
    <3>2. Ends(w)
      BY <3>1, Finishes
    <3> QED BY <2>2, <2>3, <3>1, <3>2 DEF ByEmail
  <2>4. CASE ~(ByEmail(r.email) # {} \/ (r.co # "none" /\ company[r.co] # "here"))
    <3> DEFINE j == [job[w] EXCEPT !.user = made + 1]
               i == [j EXCEPT !.todo = Tail(job[w].todo)]
    <3>1. /\ made < MaxUser /\ made' = made + 1
          /\ row' = [u \in DOMAIN row \cup {made + 1} |-> IF u = made + 1 THEN r ELSE row[u]]
          /\ Become(w, [job[w] EXCEPT !.user = made + 1, !.todo = Tail(@)])
      BY <2>1, <2>4 DEF Insert
    <3>2. Become(w, i)
      BY <3>1
    <3>3. made + 1 \in 0..MaxUser
      BY <3>1, AccountsAssumption DEF Typed, TypeOK
    <3>4. j \in Job /\ j.co = job[w].co /\ j.to = job[w].to /\ j.user = made + 1
            /\ j.tok = job[w].tok
      BY <3>3, JobTyped DEF Job
    <3> HIDE DEF j
    <3>5. Become(w, [j EXCEPT !.todo = <<"mail">>])
      BY <1>0, <2>1, <3>2
    <3>6. Goes(w, <<"mail">>, made + 1, job[w].tok)
      BY <1>0, <3>3, <3>4, <3>5, JobTyped, GoesOn DEF Goes
    <3> QED BY <2>2, <2>4, <3>1, <3>6 DEF ByEmail
  <2> QED BY <2>3, <2>4
<1>2. ASSUME reissueInvite(w)
      PROVE  \/ Ends(w) /\ UNCHANGED <<row, past>>
             \/ /\ job[w].user \in DOMAIN row
                /\ row' = [row EXCEPT ![job[w].user].invite = issued + 1]
                /\ Touch(w, job[w].user)
                /\ Goes(w, <<"mail">>, job[w].user, issued + 1)
  <2>1. job[w].todo = <<"reissue", "mail">> /\ issued < MaxToken
    BY <1>2, AtDoes DEF reissueInvite
  <2>2. CASE job[w].user \notin DOMAIN row
    BY <1>2, <2>2, Finishes DEF reissueInvite
  <2>3. CASE job[w].user \in DOMAIN row
    <3> DEFINE k == issued + 1
               j == [job[w] EXCEPT !.tok = k, !.todo = Tail(@)]
               i == [job[w] EXCEPT !.tok = k, !.todo = Tail(job[w].todo)]
    <3>1. /\ row' = [row EXCEPT ![job[w].user].invite = issued + 1]
          /\ Touch(w, job[w].user)
          /\ Become(w, j)
      BY <1>2, <2>3 DEF reissueInvite
    <3>2. Become(w, i)
      BY <3>1
    <3>3. Become(w, [job[w] EXCEPT !.tok = k, !.todo = <<"mail">>])
      BY <1>0, <2>1, <3>2
    <3>4. Goes(w, <<"mail">>, job[w].user, issued + 1)
      BY <1>0, <2>1, <3>3, DrawsLink
    <3> QED BY <2>3, <3>1, <3>4
  <2> QED BY <2>2, <2>3
<1> QED BY <1>1, <1>2

-----------------------------------------------------------------------------
(* What the steps do to the accounts.                                      *)

\* An account is written: its email stays, and so do the other accounts.
Writes(u, co, pw, invite, activated) ==
  /\ u \in DOMAIN row /\ DOMAIN row' = DOMAIN row
  /\ \A v \in DOMAIN row : v # u => row'[v] = row[v]
  /\ row'[u] \in Account
  /\ row'[u].email = row[u].email /\ row'[u].co = co /\ row'[u].pw = pw
  /\ row'[u].invite = invite /\ row'[u].activated = activated

LEMMA Invites ==
  ASSUME Typed, NEW w \in Worker, job[w].user \in DOMAIN row,
         relinkUser(w), company[job[w].co] = "here", job[w].co \in Company
  PROVE  /\ Writes(job[w].user, job[w].co, row[job[w].user].pw, job[w].tok,
                   row[job[w].user].activated)
         /\ Touch(w, job[w].user)
<1> DEFINE u == job[w].user
           a == [row[u] EXCEPT !.co = job[w].co]
           b == [a EXCEPT !.role = "CLIENT"]
           r == [b EXCEPT !.invite = job[w].tok]
<1>1. row[u] \in Account /\ job[w].tok \in 0..MaxToken
  BY JobTyped DEF Typed, TypeOK
<1>2. row' = [row EXCEPT ![u] = r] /\ Touch(w, u)
  BY DEF relinkUser, Relinked
<1>3. /\ a \in Account /\ a.email = row[u].email /\ a.co = job[w].co /\ a.pw = row[u].pw
      /\ a.activated = row[u].activated
  BY <1>1 DEF Account
<1> HIDE DEF a
<1>4. /\ b \in Account /\ b.email = row[u].email /\ b.co = job[w].co /\ b.pw = row[u].pw
      /\ b.activated = row[u].activated
  BY <1>3 DEF Account
<1> HIDE DEF b
<1>5. /\ r \in Account /\ r.email = row[u].email /\ r.co = job[w].co /\ r.pw = row[u].pw
      /\ r.activated = row[u].activated /\ r.invite = job[w].tok
  BY <1>1, <1>4 DEF Account
<1> HIDE DEF r
<1> QED BY <1>2, <1>5 DEF Writes

LEMMA Adopts ==
  ASSUME Typed, NEW w \in Worker, adoptUser(w), job[w].co \in Company
  PROVE  \/ UNCHANGED <<row, past>>
         \/ LET u == job[w].user
            IN /\ Writes(u, job[w].co, row[u].pw, row[u].invite, row[u].activated)
               /\ Touch(w, u)
<1> DEFINE u == job[w].user
           a == [row EXCEPT ![u].co = job[w].co]
           b == [a EXCEPT ![u].role = "CLIENT"]
<1>1. CASE ~(u \in DOMAIN row /\ company[job[w].co] = "here")
  BY <1>1 DEF adoptUser
<1>2. CASE u \in DOMAIN row /\ company[job[w].co] = "here"
  <2>1. row' = b /\ Touch(w, u) /\ row[u] \in Account
    BY <1>2 DEF adoptUser, Typed, TypeOK
  <2>2. /\ DOMAIN a = DOMAIN row /\ \A v \in DOMAIN row : v # u => a[v] = row[v]
        /\ a[u] \in Account /\ a[u].email = row[u].email /\ a[u].co = job[w].co
        /\ a[u].pw = row[u].pw /\ a[u].invite = row[u].invite
        /\ a[u].activated = row[u].activated
    BY <1>2, <2>1 DEF Account
  <2> HIDE DEF a
  <2>3. /\ DOMAIN b = DOMAIN row /\ \A v \in DOMAIN row : v # u => b[v] = row[v]
        /\ b[u] \in Account /\ b[u].email = row[u].email /\ b[u].co = job[w].co
        /\ b[u].pw = row[u].pw /\ b[u].invite = row[u].invite
        /\ b[u].activated = row[u].activated
    BY <1>2, <2>2 DEF Account
  <2> HIDE DEF b
  <2> QED BY <1>2, <2>1, <2>3 DEF Writes
<1> QED BY <1>1, <1>2

LEMMA Reissues ==
  ASSUME Typed, NEW w \in Worker, NEW u \in DOMAIN row, issued < MaxToken,
         row' = [row EXCEPT ![u].invite = issued + 1]
  PROVE  Writes(u, row[u].co, row[u].pw, issued + 1, row[u].activated)
<1>1. row[u] \in Account /\ issued + 1 \in 0..MaxToken
  BY AccountsAssumption DEF Typed, TypeOK
<1> QED BY <1>1 DEF Writes, Account

\* To set a password, to renew it, or to get the default one again, activates.
LEMMA Activates ==
  ASSUME Typed
  PROVE  /\ \A w \in Worker : activateAccount(w) =>
              \/ UNCHANGED <<row, past>>
              \/ LET u == job[w].user
                 IN Writes(u, row[u].co, "set", 0, TRUE) /\ Touch(w, u)
         /\ \A w \in Worker : renewPassword(w) =>
              \/ UNCHANGED <<row, past>>
              \/ LET u == job[w].user
                 IN Writes(u, row[u].co, "reset", row[u].invite, TRUE) /\ Touch(w, u)
         /\ \A u \in User : resendAggregatorInvite(u) => Writes(u, row[u].co, "set", 0, TRUE)
<1>0. 0 \in 0..MaxToken
  BY AccountsAssumption
<1>1. ASSUME NEW w \in Worker, activateAccount(w), ~UNCHANGED <<row, past>>
      PROVE  LET u == job[w].user
             IN Writes(u, row[u].co, "set", 0, TRUE) /\ Touch(w, u)
  <2> DEFINE u == job[w].user
             a == [row[u] EXCEPT !.pw = "set"]
             b == [a EXCEPT !.invite = 0]
             r == [b EXCEPT !.activated = TRUE]
  <2>1. u \in DOMAIN row /\ row' = [row EXCEPT ![u] = r] /\ Touch(w, u)
    BY <1>1 DEF activateAccount, Activated
  <2>2. row[u] \in Account
    BY <2>1 DEF Typed, TypeOK
  <2>3. a \in Account /\ a.email = row[u].email /\ a.co = row[u].co /\ a.pw = "set"
    BY <2>2 DEF Account
  <2> HIDE DEF a
  <2>4. /\ b \in Account /\ b.email = row[u].email /\ b.co = row[u].co /\ b.pw = "set"
        /\ b.invite = 0
    BY <1>0, <2>3 DEF Account
  <2> HIDE DEF b
  <2>5. /\ r \in Account /\ r.email = row[u].email /\ r.co = row[u].co /\ r.pw = "set"
        /\ r.invite = 0 /\ r.activated = TRUE
    BY <2>4 DEF Account
  <2> HIDE DEF r
  <2> QED BY <2>1, <2>5 DEF Writes
<1>2. ASSUME NEW w \in Worker, renewPassword(w), ~UNCHANGED <<row, past>>
      PROVE  LET u == job[w].user
             IN Writes(u, row[u].co, "reset", row[u].invite, TRUE) /\ Touch(w, u)
  <2> DEFINE u == job[w].user
             a == [row EXCEPT ![u].pw = "reset"]
             b == [a EXCEPT ![u].reset = FALSE]
             d == [b EXCEPT ![u].activated = TRUE]
  <2>1. u \in DOMAIN row /\ row' = d /\ Touch(w, u)
    BY <1>2 DEF renewPassword
  <2>2. row[u] \in Account
    BY <2>1 DEF Typed, TypeOK
  <2>3. /\ DOMAIN a = DOMAIN row /\ \A v \in DOMAIN row : v # u => a[v] = row[v]
        /\ a[u] \in Account /\ a[u].email = row[u].email /\ a[u].co = row[u].co
        /\ a[u].pw = "reset" /\ a[u].invite = row[u].invite
    BY <2>1, <2>2 DEF Account
  <2> HIDE DEF a
  <2>4. /\ DOMAIN b = DOMAIN row /\ \A v \in DOMAIN row : v # u => b[v] = row[v]
        /\ b[u] \in Account /\ b[u].email = row[u].email /\ b[u].co = row[u].co
        /\ b[u].pw = "reset" /\ b[u].invite = row[u].invite
    BY <2>1, <2>3 DEF Account
  <2> HIDE DEF b
  <2>5. /\ DOMAIN d = DOMAIN row /\ \A v \in DOMAIN row : v # u => d[v] = row[v]
        /\ d[u] \in Account /\ d[u].email = row[u].email /\ d[u].co = row[u].co
        /\ d[u].pw = "reset" /\ d[u].invite = row[u].invite /\ d[u].activated = TRUE
    BY <2>1, <2>4 DEF Account
  <2> HIDE DEF d
  <2> QED BY <2>1, <2>5 DEF Writes
<1>3. ASSUME NEW u \in User, resendAggregatorInvite(u)
      PROVE  Writes(u, row[u].co, "set", 0, TRUE)
  <2> DEFINE a == [row EXCEPT ![u].pw = "set"]
             b == [a EXCEPT ![u].activated = TRUE]
             d == [b EXCEPT ![u].invite = 0]
  <2>1. u \in DOMAIN row /\ row' = d
    BY <1>3 DEF resendAggregatorInvite
  <2>2. row[u] \in Account
    BY <2>1 DEF Typed, TypeOK
  <2>3. /\ DOMAIN a = DOMAIN row /\ \A v \in DOMAIN row : v # u => a[v] = row[v]
        /\ a[u] \in Account /\ a[u].email = row[u].email /\ a[u].co = row[u].co
        /\ a[u].pw = "set"
    BY <2>1, <2>2 DEF Account
  <2> HIDE DEF a
  <2>4. /\ DOMAIN b = DOMAIN row /\ \A v \in DOMAIN row : v # u => b[v] = row[v]
        /\ b[u] \in Account /\ b[u].email = row[u].email /\ b[u].co = row[u].co
        /\ b[u].pw = "set" /\ b[u].activated = TRUE
    BY <2>1, <2>3 DEF Account
  <2> HIDE DEF b
  <2>5. /\ DOMAIN d = DOMAIN row /\ \A v \in DOMAIN row : v # u => d[v] = row[v]
        /\ d[u] \in Account /\ d[u].email = row[u].email /\ d[u].co = row[u].co
        /\ d[u].pw = "set" /\ d[u].activated = TRUE /\ d[u].invite = 0
    BY <1>0, <2>1, <2>4 DEF Account
  <2> HIDE DEF d
  <2> QED BY <2>1, <2>5 DEF Writes
<1> QED BY <1>1, <1>2, <1>3

-----------------------------------------------------------------------------
(* The steps, by what they do to a request and to the accounts.            *)

\* A request begins, for a company that is there or for an account.
Starts(w) ==
  /\ row' = row /\ made' = made /\ issued' = issued /\ mail' = mail /\ contact' = contact
  /\ \/ \E c \in Company :
          /\ company'[c] = "here"
          /\ \/ Serves(w, <<"find">>, c, contact[c], 0, 0)
             \/ Serves(w, <<"client">>, c, contact[c], 0, 0)
             \/ Serves(w, <<"linked">>, c, "none", 0, 0)
     \/ \E u \in DOMAIN row, t \in Token :
          Serves(w, <<"activate">>, "none", "none", u, t) /\ t <= issued
     \/ \E t \in Token : verifyLogin(w, t) /\ Serves(w, <<"use">>, "none", "none", magic[t].user, t)
     \/ \E u \in DOMAIN row : Serves(w, <<"renew">>, "none", "none", u, 0)

\* A request has looked an account up, or found that there is none.
Looks(w) ==
  /\ row' = row /\ made' = made /\ mail' = mail /\ UNCHANGED <<company, contact>>
  /\ past'.contacts = past.contacts /\ past'.raced = past.raced
  /\ \/ /\ job[w].todo = <<"linked">> /\ issued' = issued
        /\ \E u \in {0} \cup {v \in DOMAIN row : row[v].co = job[w].co} :
             Goes(w, <<"unlink", "drop", "delete">>, u, job[w].tok)
     \/ /\ job[w].todo = <<"find">> /\ issued' = issued + 1
        /\ \/ Goes(w, <<"insert", "mail">>, job[w].user, issued + 1)
           \/ \E u \in DOMAIN row : /\ row[u].email = job[w].to /\ ~row[u].activated
                                    /\ Goes(w, <<"relink", "mail">>, u, issued + 1)
     \/ /\ job[w].todo = <<"client">> /\ issued' = issued
        /\ \/ Goes(w, <<"byemail">>, job[w].user, job[w].tok)
           \/ \E u \in DOMAIN row : /\ ~row[u].activated
                                    /\ Goes(w, <<"reissue", "mail">>, u, job[w].tok)
     \/ /\ job[w].todo = <<"byemail">> /\ issued' = issued
        /\ \/ Goes(w, <<"find">>, job[w].user, job[w].tok)
           \/ \E u \in DOMAIN row :
                /\ row[u].email = job[w].to
                /\ \/ Goes(w, <<"adopt">>, u, job[w].tok)
                   \/ /\ ~row[u].activated
                      /\ \E t \in Reissuing \cup {<<"adopt", "reissue", "mail">>} :
                           Goes(w, t, u, job[w].tok)

\* A request has written what it was about to write.
Passes(w) ==
  \/ /\ job[w].todo = <<"unlink", "drop", "delete">>
     /\ Goes(w, <<"drop", "delete">>, job[w].user, job[w].tok)
  \/ /\ job[w].todo = <<"drop", "delete">> /\ company'[job[w].co] = "gone"
     /\ Goes(w, <<"delete">>, job[w].user, job[w].tok)
  \/ /\ job[w].todo = <<"relink", "mail">> /\ row'[job[w].user].invite = job[w].tok
     /\ Goes(w, <<"mail">>, job[w].user, job[w].tok)
  \/ /\ job[w].todo = <<"insert", "mail">> /\ made' = made + 1
     /\ row'[made'].invite = job[w].tok
     /\ Goes(w, <<"mail">>, made + 1, job[w].tok)
  \/ /\ job[w].todo = <<"adopt", "reissue", "mail">> /\ adoptUser(w)
     /\ Goes(w, <<"reissue", "mail">>, job[w].user, job[w].tok)
  \/ /\ job[w].todo = <<"reissue", "mail">> /\ issued' = issued + 1
     /\ row'[job[w].user].invite = issued'
     /\ Goes(w, <<"mail">>, job[w].user, issued + 1)
  \/ /\ job[w].todo = <<"use">> /\ useAuthToken(w)
     /\ Goes(w, <<"session">>, job[w].user, job[w].tok)

\* A step of a worker; the others stay where they are.
Turns(w) == /\ Starts(w) \/ Looks(w) \/ Passes(w) \/ Ends(w)
            /\ Ends(w) => job[w].todo # <<>>

\* No request takes a step.
AtOnceStep ==
  \/ \E c \in Company : createCompany(c) \/ \E e \in Email : updateMyCompany(c, e)
  \/ \E e \in Email : requestLogin(e) \/ forgotPassword(e)
  \/ \E e \in SelfMade : register(e) \/ createAggregator(e)
  \/ \E u \in User : resendAggregatorInvite(u)
  \/ UNCHANGED vars

LEMMA Steps ==
  ASSUME Typed, Fields, Numbered, [Next]_vars
  PROVE  \/ \E w \in Worker : Turns(w) /\ (Step(w) \/ job[w] = Idle)
         \/ AtOnceStep /\ job' = job
<1>1. ASSUME NEW w \in Worker, NEW c \in Company, ClientProfiles(w, c)
      PROVE  Starts(w) /\ ~Ends(w)
  <2>1. create(w, c) \/ remove(w, c) \/ resendInvite(w, c)
    BY <1>1 DEF ClientProfiles, sendInviteAfterPaymentIfNeeded
  <2>2. CASE create(w, c)
    <3>1. Serves(w, <<"find">>, c, contact[c], 0, 0) /\ company'[c] = "here"
      BY <2>2, BeginsDoes DEF create, Typed, TypeOK
    <3>2. UNCHANGED <<row, made, issued, mail, contact>>
      BY <2>2 DEF create
    <3> QED BY <3>1, <3>2 DEF Starts, Serves, Ends
  <2>3. CASE remove(w, c)
    <3>1. Serves(w, <<"linked">>, c, "none", 0, 0) /\ company'[c] = "here"
      BY <2>3, BeginsDoes DEF remove
    <3> QED BY <2>3, <3>1 DEF remove, Starts, Serves, Ends
  <2>4. CASE resendInvite(w, c)
    <3>1. Serves(w, <<"client">>, c, contact[c], 0, 0) /\ company'[c] = "here"
      BY <2>4, BeginsDoes DEF resendInvite
    <3> QED BY <2>4, <3>1 DEF resendInvite, Starts, Serves, Ends
  <2> QED BY <2>1, <2>2, <2>3, <2>4
<1>2. ASSUME NEW w \in Worker, Auth(w)
      PROVE  Starts(w) /\ ~Ends(w)
  <2>1. ASSUME NEW t \in Token, setPassword(w, t)
        PROVE  Starts(w) /\ ~Ends(w)
    <3>1. PICK u \in DOMAIN row : Serves(w, <<"activate">>, "none", "none", u, t)
      BY <2>1, BeginsDoes
    <3>2. t <= issued /\ UNCHANGED <<row, made, issued, mail, contact>>
      BY <2>1 DEF setPassword, Numbered
    <3> QED BY <3>1, <3>2 DEF Starts, Serves, Ends
  <2>2. ASSUME NEW t \in Token, verifyLogin(w, t)
        PROVE  Starts(w) /\ ~Ends(w)
    <3>1. Serves(w, <<"use">>, "none", "none", magic[t].user, t)
      BY <2>2, BeginsDoes
    <3>2. UNCHANGED <<row, made, issued, mail, contact>>
      BY <2>2 DEF verifyLogin
    <3> QED BY <2>2, <3>1, <3>2 DEF Starts, Serves, Ends
  <2>3. ASSUME NEW u \in User, resetPassword(w, u)
        PROVE  Starts(w) /\ ~Ends(w)
    <3>1. Serves(w, <<"renew">>, "none", "none", u, 0)
      BY <2>3, BeginsDoes
    <3>2. u \in DOMAIN row /\ UNCHANGED <<row, made, issued, mail, contact>>
      BY <2>3 DEF resetPassword
    <3> QED BY <3>1, <3>2 DEF Starts, Serves, Ends
  <2> QED BY <1>2, <2>1, <2>2, <2>3 DEF Auth
<1>3. ASSUME NEW w \in Worker, Step(w)
      PROVE  Turns(w)
  <2>0. job[w].todo # <<>>
    BY <1>3 DEF Step, findLinkedUsers, disconnectUsers, deleteCompany, deleteUsers, findContact,
       relinkUser, insertClient, sendInvite, findClient, findByEmail, adoptUser, reissueInvite,
       activateAccount, useAuthToken, login, renewPassword, At
  <2>1. CASE findLinkedUsers(w)
    BY <2>0, <2>1, AtDoes, LookupDoes DEF findLinkedUsers, Looks, Turns
  <2>2. CASE findContact(w)
    <3>1. /\ job[w].todo = <<"find">> /\ issued' = issued + 1
          /\ UNCHANGED <<company, contact, row, made, mail>>
          /\ past'.contacts = past.contacts /\ past'.raced = past.raced
      BY <2>2, AtDoes DEF findContact, Typed, TypeOK, Past
    <3> QED BY <2>0, <2>2, <3>1, LookupDoes DEF Looks, Turns
  <2>3. CASE findClient(w)
    BY <2>0, <2>3, AtDoes, LookupDoes DEF findClient, Looks, Turns
  <2>4. CASE findByEmail(w)
    BY <2>0, <2>4, AtDoes, LookupDoes DEF findByEmail, Looks, Turns
  <2>5. CASE disconnectUsers(w)
    BY <2>0, <2>5, AtDoes, StepDoes DEF disconnectUsers, Passes, Turns
  <2>6. CASE deleteCompany(w)
    <3>1. CASE company[job[w].co] = "gone"
      BY <2>0, <2>6, <3>1, StepDoes DEF Turns
    <3>2. CASE company[job[w].co] # "gone"
      <4>1. company' = [company EXCEPT ![job[w].co] = "gone"]
        BY <2>6, <3>2 DEF deleteCompany
      <4>2. job[w].todo = <<"drop", "delete">>
        BY <2>6, AtDoes DEF deleteCompany
      <4>3. company'[job[w].co] = "gone"
        BY <4>1, <4>2 DEF Typed, TypeOK, Fields, OfCompany, Dropping
      <4>4. Goes(w, <<"delete">>, job[w].user, job[w].tok)
        BY <2>6, <3>2, StepDoes
      <4> QED BY <2>0, <4>2, <4>3, <4>4 DEF Passes, Turns
    <3> QED BY <3>1, <3>2
  <2>7. CASE deleteUsers(w) \/ sendInvite(w) \/ activateAccount(w) \/ login(w) \/ renewPassword(w)
    <3>1. Ends(w)
      BY <2>7, StepDoes
    <3> QED BY <2>0, <3>1 DEF Turns
  <2>8. CASE relinkUser(w)
    <3>1. CASE ~(job[w].user \in DOMAIN row /\ company[job[w].co] = "here")
      BY <2>0, <2>8, <3>1, StepDoes DEF Turns
    <3>2. CASE job[w].user \in DOMAIN row /\ company[job[w].co] = "here"
      <4>1. job[w].todo = <<"relink", "mail">>
        BY <2>8, AtDoes DEF relinkUser
      <4>2. job[w].co \in Company
        BY <4>1 DEF Fields, OfCompany, Relinking
      <4>3. row'[job[w].user].invite = job[w].tok
        BY <2>8, <3>2, <4>2, Invites DEF Writes
      <4>4. Goes(w, <<"mail">>, job[w].user, job[w].tok)
        BY <2>8, <3>2, StepDoes
      <4> QED BY <2>0, <4>1, <4>3, <4>4 DEF Passes, Turns
    <3> QED BY <3>1, <3>2
  <2>9. CASE insertClient(w)
    <3>1. CASE Ends(w)
      BY <2>0, <3>1 DEF Turns
    <3>2. CASE ~Ends(w)
      <4>1. /\ made' = made + 1 /\ Goes(w, <<"mail">>, made + 1, job[w].tok)
            /\ row' = [u \in DOMAIN row \cup {made + 1} |->
                         IF u = made + 1
                           THEN [email |-> job[w].to, role |-> "CLIENT",
                                 co |-> job[w].co, pw |-> "none",
                                 invite |-> job[w].tok, reset |-> FALSE,
                                 activated |-> FALSE]
                           ELSE row[u]]
        BY <2>9, <3>2, WriteDoes
      <4>2. row'[made + 1].invite = job[w].tok
        BY <4>1
      <4>3. job[w].todo = <<"insert", "mail">>
        BY <2>9, AtDoes DEF insertClient
      <4> QED BY <2>0, <4>1, <4>2, <4>3 DEF Passes, Turns
    <3> QED BY <3>1, <3>2
  <2>10. CASE adoptUser(w)
    BY <2>0, <2>10, StepDoes DEF Passes, Turns
  <2>11. CASE reissueInvite(w)
    <3>1. CASE Ends(w)
      BY <2>0, <3>1 DEF Turns
    <3>2. CASE ~Ends(w)
      <4>1. /\ job[w].user \in DOMAIN row /\ Goes(w, <<"mail">>, job[w].user, issued + 1)
            /\ row' = [row EXCEPT ![job[w].user].invite = issued + 1]
        BY <2>11, <3>2, WriteDoes
      <4>2. issued' = issued + 1 /\ issued < MaxToken
        BY <2>11 DEF reissueInvite
      <4>3. row'[job[w].user].invite = issued + 1
        BY <4>1, <4>2, Reissues DEF Writes
      <4> QED BY <2>0, <2>11, <4>1, <4>2, <4>3, AtDoes DEF reissueInvite, Passes, Turns
    <3> QED BY <3>1, <3>2
  <2>12. CASE useAuthToken(w)
    BY <2>0, <2>12, AtDoes, StepDoes DEF useAuthToken, Passes, Turns
  <2> QED BY <1>3, <2>1, <2>2, <2>3, <2>4, <2>5, <2>6, <2>7, <2>8, <2>9, <2>10, <2>11, <2>12
          DEF Step
<1>4. ASSUME AtOnceStep
      PROVE  job' = job
  BY <1>4 DEF AtOnceStep, createCompany, updateMyCompany, requestLogin, forgotPassword, register,
     createAggregator, InsertOwn, resendAggregatorInvite, vars
<1>5. ASSUME NEW w \in Worker, Auth(w) \/ \E c \in Company : ClientProfiles(w, c)
      PROVE  job[w] = Idle
  BY <1>5 DEF Auth, setPassword, verifyLogin, resetPassword, ClientProfiles, create, remove,
     resendInvite, sendInviteAfterPaymentIfNeeded, Begin
<1> QED BY <1>1, <1>2, <1>3, <1>4, <1>5 DEF Next, AtOnce, Companies, AtOnceStep, Turns

-----------------------------------------------------------------------------
(* What only grows.                                                        *)

\* The past is only added to.
PastGoes ==
  /\ past' \in Past
  /\ \A c \in Company : past.contacts[c] \subseteq past'.contacts[c]
  /\ past.invited \subseteq past'.invited /\ past.raced \subseteq past'.raced
  /\ past.overlapped \subseteq past'.overlapped

\* A company is made once and gone for good.
CompanyGoes ==
  /\ company' \in [Company -> {"none", "here", "gone"}]
  /\ \A c \in Company : /\ company[c] # "none" => company'[c] # "none"
                        /\ company[c] = "gone" => company'[c] = "gone"

LEMMA Touches ==
  ASSUME Typed, NEW w \in Worker, NEW u \in User, Touch(w, u)
  PROVE  /\ PastGoes
         /\ past'.contacts = past.contacts /\ past'.invited = past.invited
         /\ past'.overlapped = past.overlapped /\ past'.signins = past.signins
         /\ \A v \in Worker \ {w} : job[v].user = u => u \in past'.raced
<1>1. past \in Past
  BY DEF Typed, TypeOK
<1>2. CASE Contended(w, u)
  BY <1>1, <1>2 DEF Touch, Past, PastGoes
<1>3. CASE ~Contended(w, u)
  BY <1>1, <1>3 DEF Touch, Past, PastGoes, Contended
<1> QED BY <1>2, <1>3

LEMMA PastGrows ==
  ASSUME Typed, Fields, [Next]_vars
  PROVE  PastGoes
<1>0. past \in Past
  BY DEF Typed, TypeOK
<1>1. ASSUME NEW w \in Worker, NEW c \in Company, ClientProfiles(w, c)
      PROVE  PastGoes
  BY <1>0, <1>1 DEF ClientProfiles, sendInviteAfterPaymentIfNeeded, create, remove, resendInvite,
     PastGoes
<1>2. ASSUME NEW w \in Worker, Auth(w)
      PROVE  PastGoes
  <2>1. ASSUME NEW t \in Token, verifyLogin(w, t)
        PROVE  PastGoes
    <3>1. past' = [past EXCEPT !.overlapped = IF Verifying(t) = {} THEN @ ELSE @ \cup {t}]
      BY <2>1 DEF verifyLogin
    <3>2. CASE Verifying(t) = {}
      BY <1>0, <3>1, <3>2 DEF Past, PastGoes
    <3>3. CASE Verifying(t) # {}
      BY <1>0, <3>1, <3>3 DEF Past, PastGoes
    <3> QED BY <3>2, <3>3
  <2> QED BY <1>0, <1>2, <2>1 DEF Auth, setPassword, resetPassword, PastGoes
<1>3. ASSUME NEW w \in Worker, Step(w)
      PROVE  PastGoes
  <2>1. CASE findContact(w)
    <3>1. job[w].co \in Company
      BY <2>1, AtDoes DEF findContact, Fields, OfCompany, Looking
    <3>2. past' = [past EXCEPT !.invited = @ \cup {job[w].co}]
      BY <2>1 DEF findContact
    <3> QED BY <1>0, <3>1, <3>2 DEF Past, PastGoes
  <2>2. CASE login(w)
    <3> DEFINE t == job[w].tok
    <3>0. job[w].todo = <<"session">>
      BY <2>2, AtDoes DEF login
    <3>1. t \in Token
      <4>1. t # 0
        BY <3>0 DEF Fields, SigningIn
      <4>2. t \in 0..MaxToken
        BY JobTyped
      <4> QED BY <4>1, <4>2, AccountsAssumption DEF Token
    <3>2. past' = [past EXCEPT !.signins[t] =
                     IF job[w].user \in DOMAIN row /\ @ < 2 THEN @ + 1 ELSE @]
      BY <2>2 DEF login
    <3>3. past.signins \in [Token -> 0..2]
      BY <1>0 DEF Past
    <3> DEFINE n == IF job[w].user \in DOMAIN row /\ past.signins[t] < 2
                    THEN past.signins[t] + 1 ELSE past.signins[t]
    <3>4. n \in 0..2
      BY <3>1, <3>3
    <3>5. past' = [past EXCEPT !.signins = [past.signins EXCEPT ![t] = n]]
      BY <3>2
    <3> HIDE DEF n, t
    <3>6. [past.signins EXCEPT ![t] = n] \in [Token -> 0..2]
      BY <3>3, <3>4
    <3> QED BY <1>0, <3>5, <3>6 DEF Past, PastGoes
  <2>3. CASE relinkUser(w) \/ adoptUser(w) \/ reissueInvite(w) \/ activateAccount(w)
             \/ renewPassword(w)
    <3>1. \/ past' = past
          \/ job[w].user \in DOMAIN row /\ Touch(w, job[w].user)
      BY <2>3 DEF relinkUser, adoptUser, reissueInvite, activateAccount, renewPassword
    <3> QED BY <1>0, <3>1, Touches DEF Typed, TypeOK, PastGoes
  <2>4. CASE past' = past
    BY <1>0, <2>4 DEF PastGoes
  <2> QED BY <1>3, <2>1, <2>2, <2>3, <2>4 DEF Step, findLinkedUsers, disconnectUsers,
      deleteCompany, deleteUsers, insertClient, sendInvite, findClient, findByEmail, useAuthToken
<1>4. ASSUME AtOnceStep
      PROVE  PastGoes
  <2>1. ASSUME NEW c \in Company, NEW e \in Email, updateMyCompany(c, e)
        PROVE  PastGoes
    <3>1. past' = [past EXCEPT !.contacts = [past.contacts EXCEPT ![c] = past.contacts[c] \cup {e}]]
      BY <2>1 DEF updateMyCompany
    <3> DEFINE f == [past.contacts EXCEPT ![c] = past.contacts[c] \cup {e}]
    <3>2. past.contacts \in [Company -> SUBSET Email]
      BY <1>0 DEF Past
    <3>3. f \in [Company -> SUBSET Email] /\ \A d \in Company : past.contacts[d] \subseteq f[d]
      BY <3>2
    <3> HIDE DEF f
    <3>4. past' = [past EXCEPT !.contacts = f]
      BY <3>1 DEF f
    <3> QED BY <1>0, <3>3, <3>4 DEF Past, PastGoes
  <2>2. ASSUME NEW u \in User, resendAggregatorInvite(u)
        PROVE  PastGoes
    <3>1. past' = [past EXCEPT !.raced = IF \E w \in Worker : job[w].user = u
                                         THEN @ \cup {u} ELSE @]
      BY <2>2 DEF resendAggregatorInvite
    <3>2. CASE \E w \in Worker : job[w].user = u
      BY <1>0, <3>1, <3>2 DEF Past, PastGoes
    <3>3. CASE ~\E w \in Worker : job[w].user = u
      BY <1>0, <3>1, <3>3 DEF Past, PastGoes
    <3> QED BY <3>2, <3>3
  <2> QED BY <1>0, <1>4, <2>1, <2>2 DEF AtOnceStep, createCompany, requestLogin, forgotPassword,
      register, createAggregator, InsertOwn, vars, PastGoes
<1> QED BY <1>1, <1>2, <1>3, <1>4 DEF Next, AtOnce, Companies, AtOnceStep

LEMMA CompanyGrows ==
  ASSUME Typed, Fields, [Next]_vars
  PROVE  CompanyGoes
<1>0. company \in [Company -> {"none", "here", "gone"}]
  BY DEF Typed, TypeOK
<1>1. ASSUME NEW c \in Company, company[c] = "none", company' = [company EXCEPT ![c] = "here"]
      PROVE  CompanyGoes
  BY <1>0, <1>1 DEF CompanyGoes
<1>2. ASSUME NEW w \in Worker, deleteCompany(w)
      PROVE  CompanyGoes
  <2>1. job[w].co \in Company
    BY <1>2, AtDoes DEF deleteCompany, Fields, OfCompany, Dropping
  <2>2. company' = company \/ company' = [company EXCEPT ![job[w].co] = "gone"]
    BY <1>2 DEF deleteCompany
  <2> QED BY <1>0, <2>1, <2>2 DEF CompanyGoes
<1>3. CASE company' = company
  BY <1>0, <1>3 DEF CompanyGoes
<1>4. ASSUME NEW w \in Worker, Step(w) \/ Auth(w) \/ \E c \in Company : ClientProfiles(w, c)
      PROVE  CompanyGoes
  <2>1. ASSUME NEW c \in Company, create(w, c)
        PROVE  CompanyGoes
    BY <1>1, <2>1 DEF create
  <2>2. Step(w) => deleteCompany(w) \/ company' = company
    BY DEF Step, findLinkedUsers, disconnectUsers, deleteUsers, findContact, relinkUser,
       insertClient, sendInvite, findClient, findByEmail, adoptUser, reissueInvite,
       activateAccount, useAuthToken, login, renewPassword
  <2>3. Auth(w) => company' = company
    BY DEF Auth, setPassword, verifyLogin, resetPassword
  <2>4. \A c \in Company : ClientProfiles(w, c) => create(w, c) \/ company' = company
    BY DEF ClientProfiles, remove, resendInvite, sendInviteAfterPaymentIfNeeded
  <2> QED BY <1>2, <1>3, <1>4, <2>1, <2>2, <2>3, <2>4
<1>5. ASSUME AtOnceStep
      PROVE  CompanyGoes
  <2>1. (\E c \in Company : createCompany(c)) \/ company' = company
    BY <1>5 DEF AtOnceStep, updateMyCompany, requestLogin, forgotPassword, register,
       createAggregator, InsertOwn, resendAggregatorInvite, vars
  <2> QED BY <1>1, <1>3, <2>1 DEF createCompany
<1> QED BY <1>4, <1>5 DEF Next, AtOnce, Companies, AtOnceStep

-----------------------------------------------------------------------------
(* What a step does to all the accounts.                                   *)

\* No account comes, goes or is written, but that it may be left by its company.
Leaves ==
  /\ made' = made /\ DOMAIN row' = DOMAIN row
  /\ \A u \in DOMAIN row :
       /\ row'[u] \in Account
       /\ row'[u].email = row[u].email /\ row'[u].pw = row[u].pw
       /\ row'[u].invite = row[u].invite /\ row'[u].activated = row[u].activated
       /\ row'[u].co \in {row[u].co, "none"}

\* The others who have looked the account up are noted.
Noted(w, u) == \A v \in Worker \ {w} : job[v].user = u => u \in past'.raced

Removes(w) ==
  /\ job[w].todo = <<"delete">> /\ Ends(w) /\ made' = made /\ issued' = issued /\ mail' = mail
  /\ DOMAIN row' = DOMAIN row \ {job[w].user}
  /\ \A u \in DOMAIN row' : row'[u] = row[u]

Relinks(w) ==
  /\ job[w].todo = <<"relink", "mail">> /\ made' = made /\ issued' = issued /\ mail' = mail
  /\ Goes(w, <<"mail">>, job[w].user, job[w].tok)
  /\ LET u == job[w].user
     IN Writes(u, job[w].co, row[u].pw, job[w].tok, row[u].activated) /\ Noted(w, u)

Links(w) ==
  /\ job[w].todo \in Adopting /\ made' = made /\ issued' = issued /\ mail' = mail
  /\ \/ Ends(w)
     \/ /\ job[w].todo = <<"adopt", "reissue", "mail">>
        /\ Goes(w, <<"reissue", "mail">>, job[w].user, job[w].tok)
  /\ LET u == job[w].user
     IN Writes(u, job[w].co, row[u].pw, row[u].invite, row[u].activated) /\ Noted(w, u)

Renews(w) ==
  /\ job[w].todo = <<"reissue", "mail">> /\ made' = made /\ issued' = issued + 1 /\ mail' = mail
  /\ Goes(w, <<"mail">>, job[w].user, issued + 1)
  /\ LET u == job[w].user
     IN Writes(u, row[u].co, row[u].pw, issued + 1, row[u].activated) /\ Noted(w, u)

Enters(w) ==
  /\ job[w].todo \in Entering /\ Ends(w) /\ made' = made /\ issued' = issued /\ mail' = mail
  /\ LET u == job[w].user
     IN /\ Noted(w, u)
        /\ \/ Writes(u, row[u].co, "set", 0, TRUE)
           \/ Writes(u, row[u].co, "reset", row[u].invite, TRUE)

Resets(u) ==
  /\ job' = job /\ made' = made /\ issued' = issued /\ mail' = mail
  /\ Writes(u, row[u].co, "set", 0, TRUE)
  /\ \A v \in Worker : job[v].user = u => u \in past'.raced

\* An account is made for an email that has none.
Adds(email, co, pw, invite, activated) ==
  /\ made < MaxUser /\ made' = made + 1 /\ issued' = issued /\ mail' = mail
  /\ \A u \in DOMAIN row : row[u].email # email
  /\ DOMAIN row' = DOMAIN row \cup {made + 1}
  /\ \A u \in DOMAIN row \ {made + 1} : row'[u] = row[u]
  /\ LET r == row'[made + 1]
     IN /\ r \in Account /\ r.email = email /\ r.co = co /\ r.pw = pw /\ r.invite = invite
        /\ r.activated = activated

Inserts(w) ==
  /\ job[w].todo = <<"insert", "mail">>
  /\ Goes(w, <<"mail">>, made + 1, job[w].tok)
  /\ Adds(job[w].to, job[w].co, "none", job[w].tok, FALSE)

Registers == job' = job /\ \E e \in Email : Adds(e, "none", "set", 0, TRUE)

Written ==
  \/ \E w \in Worker : \/ Removes(w) \/ Relinks(w) \/ Links(w) \/ Renews(w) \/ Enters(w)
                       \/ Inserts(w)
  \/ \E u \in User : Resets(u)
  \/ Registers

LEMMA Unlinks ==
  ASSUME Typed, NEW c, row' = Unlinked(c), made' = made
  PROVE  Leaves
<1>1. \A u \in DOMAIN row : row[u] \in Account
  BY DEF Typed, TypeOK
<1>2. ASSUME NEW u \in DOMAIN row
      PROVE  /\ row'[u] \in Account
             /\ row'[u].email = row[u].email /\ row'[u].pw = row[u].pw
             /\ row'[u].invite = row[u].invite /\ row'[u].activated = row[u].activated
             /\ row'[u].co \in {row[u].co, "none"}
  <2>1. row'[u] = IF row[u].co = c THEN [row[u] EXCEPT !.co = "none"] ELSE row[u]
    BY DEF Unlinked
  <2>2. CASE row[u].co = c
    BY <1>1, <2>1, <2>2 DEF Account
  <2>3. CASE row[u].co # c
    BY <1>1, <2>1, <2>3
  <2> QED BY <2>2, <2>3
<1> QED BY <1>2 DEF Leaves, Unlinked

LEMMA Stays ==
  ASSUME Typed, row' = row, made' = made
  PROVE  Leaves
BY DEF Leaves, Typed, TypeOK

LEMMA Adding ==
  ASSUME Typed, made < MaxUser, made' = made + 1, issued' = issued, mail' = mail,
         NEW r \in Account, row' = [u \in DOMAIN row \cup {made + 1} |->
                                      IF u = made + 1 THEN r ELSE row[u]],
         \A u \in DOMAIN row : row[u].email # r.email
  PROVE  Adds(r.email, r.co, r.pw, r.invite, r.activated)
BY DEF Adds

LEMMA Rows ==
  ASSUME Typed, Fields, Numbered, [Next]_vars
  PROVE  Leaves \/ Written
<1>0. DOMAIN row \subseteq User /\ 0 \in 0..MaxToken
  BY AccountsAssumption DEF Typed, TypeOK
<1>1. ASSUME NEW w \in Worker, Step(w)
      PROVE  Leaves \/ Written
  <2> DEFINE u == job[w].user
  <2>1. CASE UNCHANGED <<row, made>>
    BY <2>1, Stays
  <2>2. CASE disconnectUsers(w) \/ deleteCompany(w)
    <3>1. \/ UNCHANGED <<row, made>>
          \/ row' = Unlinked(job[w].co) /\ made' = made
      BY <2>2 DEF disconnectUsers, deleteCompany
    <3> QED BY <3>1, Stays, Unlinks
  <2>3. CASE deleteUsers(w)
    <3>1. job[w].todo = <<"delete">> /\ Ends(w)
      BY <2>3, AtDoes, StepDoes DEF deleteUsers
    <3>2. UNCHANGED <<made, issued, mail>>
      BY <2>3 DEF deleteUsers
    <3>3. row' = [v \in DOMAIN row \ UsersToDelete(w) |-> row[v]]
      BY <2>3 DEF deleteUsers, Without
    <3>4. DOMAIN row' = DOMAIN row \ {job[w].user} /\ \A v \in DOMAIN row' : row'[v] = row[v]
      BY <3>3 DEF UsersToDelete
    <3> QED BY <3>1, <3>2, <3>4 DEF Removes, Written
  <2>4. CASE relinkUser(w)
    <3>1. CASE u \in DOMAIN row /\ company[job[w].co] = "here"
      <4>1. job[w].todo = <<"relink", "mail">>
        BY <2>4, AtDoes DEF relinkUser
      <4>2. job[w].co \in Company
        BY <4>1 DEF Fields, OfCompany, Relinking
      <4>3. Writes(u, job[w].co, row[u].pw, job[w].tok, row[u].activated) /\ Touch(w, u)
        BY <2>4, <3>1, <4>2, Invites
      <4>4. Noted(w, u)
        BY <1>0, <3>1, <4>3, Touches DEF Noted
      <4>5. Goes(w, <<"mail">>, u, job[w].tok) /\ UNCHANGED <<made, issued, mail>>
        BY <2>4, <3>1, StepDoes DEF relinkUser
      <4> QED BY <4>1, <4>3, <4>4, <4>5 DEF Relinks, Written
    <3>2. CASE ~(u \in DOMAIN row /\ company[job[w].co] = "here")
      BY <2>4, <3>2, Stays DEF relinkUser
    <3> QED BY <3>1, <3>2
  <2>5. CASE adoptUser(w) /\ ~UNCHANGED <<row, past>>
    <3>1. job[w].todo \in Adopting /\ UNCHANGED <<made, issued, mail>>
      BY <2>5, AtDoes DEF adoptUser
    <3>2. job[w].co \in Company
      BY <3>1 DEF Fields, OfCompany
    <3>3. Writes(u, job[w].co, row[u].pw, row[u].invite, row[u].activated) /\ Touch(w, u)
      BY <2>5, <3>2, Adopts
    <3>4. Noted(w, u)
      BY <1>0, <3>3, Touches DEF Noted, Writes
    <3>5. \/ Ends(w)
          \/ /\ job[w].todo = <<"adopt", "reissue", "mail">>
             /\ Goes(w, <<"reissue", "mail">>, job[w].user, job[w].tok)
      BY <2>5, StepDoes
    <3> QED BY <3>1, <3>3, <3>4, <3>5 DEF Links, Written
  <2>6. CASE reissueInvite(w)
    <3>1. UNCHANGED <<made, mail>> /\ issued' = issued + 1 /\ issued < MaxToken
            /\ job[w].todo = <<"reissue", "mail">>
      BY <2>6, AtDoes DEF reissueInvite
    <3>2. CASE row' = row
      BY <3>1, <3>2, Stays
    <3>3. CASE row' # row
      <4>1. /\ u \in DOMAIN row /\ row' = [row EXCEPT ![u].invite = issued + 1] /\ Touch(w, u)
            /\ Goes(w, <<"mail">>, u, issued + 1)
        BY <2>6, <3>3, WriteDoes
      <4>2. Writes(u, row[u].co, row[u].pw, issued + 1, row[u].activated)
        BY <3>1, <4>1, Reissues
      <4>3. Noted(w, u)
        BY <1>0, <4>1, Touches DEF Noted
      <4> QED BY <3>1, <4>1, <4>2, <4>3 DEF Renews, Written
    <3> QED BY <3>2, <3>3
  <2>7. CASE (activateAccount(w) \/ renewPassword(w)) /\ ~UNCHANGED <<row, past>>
    <3>1. job[w].todo \in Entering /\ UNCHANGED <<made, issued, mail>> /\ Ends(w)
      BY <2>7, AtDoes, StepDoes DEF activateAccount, renewPassword, Entering
    <3>2. /\ \/ Writes(u, row[u].co, "set", 0, TRUE)
             \/ Writes(u, row[u].co, "reset", row[u].invite, TRUE)
          /\ Touch(w, u)
      BY <2>7, Activates
    <3>3. u \in DOMAIN row
      BY <3>2 DEF Writes
    <3>4. Noted(w, u)
      BY <1>0, <3>2, <3>3, Touches DEF Noted
    <3> QED BY <3>1, <3>2, <3>4 DEF Enters, Written
  <2>8. CASE insertClient(w) /\ ~UNCHANGED <<row, made>>
    <3> DEFINE r == [email |-> job[w].to, role |-> "CLIENT", co |-> job[w].co, pw |-> "none",
                     invite |-> job[w].tok, reset |-> FALSE, activated |-> FALSE]
    <3>1. /\ made < MaxUser /\ made' = made + 1
          /\ \A v \in DOMAIN row : row[v].email # job[w].to
          /\ row' = [v \in DOMAIN row \cup {made + 1} |-> IF v = made + 1 THEN r ELSE row[v]]
          /\ Goes(w, <<"mail">>, made + 1, job[w].tok)
      BY <2>8, WriteDoes
    <3>2. job[w].todo = <<"insert", "mail">> /\ UNCHANGED <<issued, mail>>
      BY <2>8, AtDoes DEF insertClient
    <3>3. job[w].co \in Company /\ job[w].to \in Email
      BY <3>2 DEF Fields, OfCompany, Inserting, Typed, TypeOK, Past
    <3>4. r \in Account
      BY <3>3, JobTyped DEF Account
    <3>5. /\ r.email = job[w].to /\ r.co = job[w].co /\ r.pw = "none"
          /\ r.invite = job[w].tok /\ r.activated = FALSE
      OBVIOUS
    <3> HIDE DEF r
    <3>6. Adds(r.email, r.co, r.pw, r.invite, r.activated)
      BY <3>1, <3>2, <3>4, <3>5, Adding
    <3> QED BY <3>1, <3>2, <3>5, <3>6 DEF Inserts, Written
  <2> QED BY <1>1, <2>1, <2>2, <2>3, <2>4, <2>5, <2>6, <2>7, <2>8, Stays DEF Step,
      findLinkedUsers, findContact, sendInvite, findClient, findByEmail, useAuthToken, login,
      adoptUser, activateAccount, renewPassword
<1>2. ASSUME NEW w \in Worker, Auth(w) \/ \E c \in Company : ClientProfiles(w, c)
      PROVE  Leaves
  <2>1. Auth(w) => UNCHANGED <<row, made>>
    BY DEF Auth, setPassword, verifyLogin, resetPassword
  <2>2. \A c \in Company : ClientProfiles(w, c) => UNCHANGED <<row, made>>
    BY DEF ClientProfiles, create, remove, resendInvite, sendInviteAfterPaymentIfNeeded
  <2> QED BY <1>2, <2>1, <2>2, Stays
<1>3. ASSUME AtOnceStep
      PROVE  Leaves \/ Written
  <2>1. ASSUME NEW e \in Email, forgotPassword(e)
        PROVE  Leaves
    <3>1. PICK u \in ByEmail(e) : row' = [row EXCEPT ![u].reset = TRUE]
      BY <2>1 DEF forgotPassword
    <3>2. u \in DOMAIN row /\ row[u] \in Account
      BY DEF ByEmail, Typed, TypeOK
    <3> DEFINE r == [row[u] EXCEPT !.reset = TRUE]
    <3>3. /\ r \in Account /\ r.email = row[u].email /\ r.pw = row[u].pw
          /\ r.invite = row[u].invite /\ r.activated = row[u].activated /\ r.co = row[u].co
      BY <3>2 DEF Account
    <3>4. row' = [row EXCEPT ![u] = r] /\ made' = made
      BY <2>1, <3>1 DEF forgotPassword
    <3> HIDE DEF r
    <3> QED BY <3>3, <3>4 DEF Leaves, Typed, TypeOK
  <2>2. ASSUME NEW e \in Email, NEW role \in {"CLIENT", "USER", "AGGREGATOR"}, InsertOwn(e, role)
        PROVE  Registers
    <3> DEFINE r == NewAccount(e, role)
    <3>1. /\ made < MaxUser /\ made' = made + 1 /\ UNCHANGED <<issued, mail, job>>
          /\ \A v \in DOMAIN row : row[v].email # e
          /\ row' = [v \in DOMAIN row \cup {made + 1} |-> IF v = made + 1 THEN r ELSE row[v]]
      BY <2>2 DEF InsertOwn, ByEmail
    <3>2. /\ r \in Account /\ r.email = e /\ r.co = "none" /\ r.pw = "set" /\ r.invite = 0
          /\ r.activated = TRUE
      BY <1>0 DEF NewAccount, Account
    <3> HIDE DEF r
    <3>3. Adds(r.email, r.co, r.pw, r.invite, r.activated)
      BY <3>1, <3>2, Adding
    <3> QED BY <3>1, <3>2, <3>3 DEF Registers
  <2>3. ASSUME NEW u \in User, resendAggregatorInvite(u)
        PROVE  Resets(u)
    <3>1. Writes(u, row[u].co, "set", 0, TRUE)
      BY <2>3, Activates
    <3>2. past' = [past EXCEPT !.raced = IF \E w \in Worker : job[w].user = u
                                         THEN @ \cup {u} ELSE @]
      BY <2>3 DEF resendAggregatorInvite
    <3>3. ASSUME NEW v \in Worker, job[v].user = u
          PROVE  u \in past'.raced
      BY <3>2, <3>3 DEF Typed, TypeOK, Past
    <3>4. UNCHANGED <<job, made, issued, mail>>
      BY <2>3 DEF resendAggregatorInvite
    <3> QED BY <3>1, <3>3, <3>4 DEF Resets
  <2>4. ASSUME UNCHANGED <<row, made>>
        PROVE  Leaves
    BY <2>4, Stays
  <2>5. \/ \E e \in Email : forgotPassword(e)
        \/ \E e \in SelfMade : InsertOwn(e, "USER") \/ InsertOwn(e, "AGGREGATOR")
        \/ \E u \in User : resendAggregatorInvite(u)
        \/ UNCHANGED <<row, made>>
    BY <1>3 DEF AtOnceStep, createCompany, updateMyCompany, requestLogin, register,
       createAggregator, vars
  <2> QED BY <2>1, <2>2, <2>3, <2>4, <2>5, AccountsAssumption DEF Written
<1> QED BY <1>1, <1>2, <1>3 DEF Next, AtOnce, Companies, AtOnceStep

-----------------------------------------------------------------------------
(* The counters, the contacts, the mail and the sign-in links.             *)

LEMMA Counts ==
  ASSUME Typed, [Next]_vars
  PROVE  issued' \in {issued, issued + 1} /\ issued' \in 0..MaxToken
<1>1. issued \in 0..MaxToken /\ (issued < MaxToken => issued + 1 \in 0..MaxToken)
  BY AccountsAssumption DEF Typed, TypeOK
<1>2. issued' = issued \/ (issued < MaxToken /\ issued' = issued + 1)
  BY ZenonT(40) DEF Next, Step, Auth, ClientProfiles, AtOnce, Companies, vars,
     create, createCompany, updateMyCompany, remove, findLinkedUsers, disconnectUsers,
     deleteCompany, deleteUsers, findContact, relinkUser, insertClient, sendInvite, resendInvite,
     sendInviteAfterPaymentIfNeeded, findClient, findByEmail, adoptUser, reissueInvite,
     setPassword, activateAccount, requestLogin, verifyLogin, useAuthToken, login,
     forgotPassword, resetPassword, renewPassword, InsertOwn, register, createAggregator,
     resendAggregatorInvite
<1> QED BY <1>1, <1>2

LEMMA Contacts ==
  ASSUME Typed, Fields, [Next]_vars
  PROVE  /\ contact' \in [Company -> Email]
         /\ \A c \in Company : contact'[c] = contact[c] \/ contact'[c] \in past'.contacts[c]
<1>1. contact \in [Company -> Email] /\ past.contacts \in [Company -> SUBSET Email]
        /\ past \in Past
  BY DEF Typed, TypeOK, Past
<1>2. ASSUME NEW d \in Company, NEW e \in Email, updateMyCompany(d, e)
      PROVE  /\ contact' \in [Company -> Email]
             /\ \A c \in Company : contact'[c] = contact[c] \/ contact'[c] \in past'.contacts[c]
  <2>1. contact' = [contact EXCEPT ![d] = e]
    BY <1>2 DEF updateMyCompany
  <2>2. past' = [past EXCEPT !.contacts = [past.contacts EXCEPT ![d] = past.contacts[d] \cup {e}]]
    BY <1>2 DEF updateMyCompany
  <2> DEFINE f == [past.contacts EXCEPT ![d] = past.contacts[d] \cup {e}]
  <2>3. e \in f[d]
    BY <1>1
  <2> HIDE DEF f
  <2>4. past'.contacts = f
    BY <1>1, <2>2 DEF f, Past
  <2> QED BY <1>1, <2>1, <2>3, <2>4
<1>3. \/ contact' = contact
      \/ \E d \in Company, e \in Email : updateMyCompany(d, e)
  BY ZenonT(40) DEF Next, Step, Auth, ClientProfiles, AtOnce, Companies, vars,
     create, createCompany, remove, findLinkedUsers, disconnectUsers,
     deleteCompany, deleteUsers, findContact, relinkUser, insertClient, sendInvite, resendInvite,
     sendInviteAfterPaymentIfNeeded, findClient, findByEmail, adoptUser, reissueInvite,
     setPassword, activateAccount, requestLogin, verifyLogin, useAuthToken, login,
     forgotPassword, resetPassword, renewPassword, InsertOwn, register, createAggregator,
     resendAggregatorInvite
<1> QED BY <1>1, <1>2, <1>3

\* What is mailed is the link and the account of a request that has only the mail left.
LEMMA Mails ==
  ASSUME Typed, [Next]_vars
  PROVE  \A m \in mail' : m \notin mail =>
           \E w \in Worker :
             /\ job[w].todo \in Mailing /\ Ends(w)
             /\ m = [tok |-> job[w].tok, user |-> job[w].user, co |-> job[w].co]
<1>1. ASSUME NEW w \in Worker, sendInvite(w), NEW m \in mail', m \notin mail
      PROVE  /\ job[w].todo \in Mailing /\ Ends(w)
             /\ m = [tok |-> job[w].tok, user |-> job[w].user, co |-> job[w].co]
  <2>1. job[w].todo \in Mailing /\ Ends(w)
    BY <1>1, AtDoes, StepDoes DEF sendInvite, Mailing
  <2>2. m = [tok |-> job[w].tok, user |-> job[w].user, co |-> job[w].co]
    BY <1>1 DEF sendInvite
  <2> QED BY <2>1, <2>2
<1>2. mail' = mail \/ \E w \in Worker : sendInvite(w)
  BY ZenonT(40) DEF Next, Step, Auth, ClientProfiles, AtOnce, Companies, vars,
     create, createCompany, updateMyCompany, remove, findLinkedUsers, disconnectUsers,
     deleteCompany, deleteUsers, findContact, relinkUser, insertClient, resendInvite,
     sendInviteAfterPaymentIfNeeded, findClient, findByEmail, adoptUser, reissueInvite,
     setPassword, activateAccount, requestLogin, verifyLogin, useAuthToken, login,
     forgotPassword, resetPassword, renewPassword, InsertOwn, register, createAggregator,
     resendAggregatorInvite
<1> QED BY <1>1, <1>2

\* A sign-in link is made for an account, used, or deleted with its account.
MagicMade == \E u \in DOMAIN row :
  /\ issued' = issued + 1 /\ UNCHANGED <<row, job, past>>
  /\ magic' = [t \in DOMAIN magic \cup {issued + 1} |->
                 IF t = issued + 1 THEN [user |-> u, used |-> FALSE] ELSE magic[t]]

MagicUsed(w) ==
  /\ job[w].todo = <<"use">> /\ job[w].tok \in DOMAIN magic
  /\ Goes(w, <<"session">>, job[w].user, job[w].tok)
  /\ magic' = [magic EXCEPT ![job[w].tok].used = TRUE]

MagicLeft ==
  /\ DOMAIN magic' \subseteq DOMAIN magic
  /\ \A t \in DOMAIN magic' : magic'[t] = magic[t]

LEMMA Magics ==
  ASSUME Typed, [Next]_vars
  PROVE  MagicMade \/ MagicLeft \/ \E w \in Worker : MagicUsed(w)
<1>1. ASSUME NEW w \in Worker, deleteUsers(w)
      PROVE  MagicLeft
  BY <1>1 DEF deleteUsers, Without, MagicLeft
<1>2. ASSUME NEW w \in Worker, useAuthToken(w)
      PROVE  MagicLeft \/ MagicUsed(w)
  BY <1>2, AtDoes, StepDoes DEF useAuthToken, MagicLeft, MagicUsed
<1>3. ASSUME NEW e \in Email, requestLogin(e)
      PROVE  MagicMade
  BY <1>3 DEF requestLogin, ByEmail, MagicMade
<1>4. \/ magic' = magic
      \/ \E w \in Worker : deleteUsers(w) \/ useAuthToken(w)
      \/ \E e \in Email : requestLogin(e)
  BY DEF Next, Step, Auth, ClientProfiles, AtOnce, Companies, vars,
     create, createCompany, updateMyCompany, remove, findLinkedUsers, disconnectUsers,
     deleteCompany, findContact, relinkUser, insertClient, sendInvite, resendInvite,
     sendInviteAfterPaymentIfNeeded, findClient, findByEmail, adoptUser, reissueInvite,
     setPassword, activateAccount, verifyLogin, login,
     forgotPassword, resetPassword, renewPassword, InsertOwn, register, createAggregator,
     resendAggregatorInvite
<1> QED BY <1>1, <1>2, <1>3, <1>4 DEF MagicLeft

-----------------------------------------------------------------------------
(* The conjuncts of the invariant, one by one.                             *)

LEMMA MadeGrows ==
  ASSUME Typed, Leaves \/ Written
  PROVE  made' \in {made, made + 1} /\ made' \in 0..MaxUser
<1>1. made' = made \/ (made < MaxUser /\ made' = made + 1)
  BY DEF Leaves, Written, Removes, Relinks, Links, Renews, Enters, Inserts, Resets, Registers, Adds
<1> QED BY <1>1, AccountsAssumption DEF Typed, TypeOK

LEMMA NumberedInv ==
  ASSUME IInv, [Next]_vars
  PROVE  Numbered'
<1> USE DEF IInv
<1>0. /\ issued' \in {issued, issued + 1} /\ issued \in Nat
      /\ made' \in {made, made + 1} /\ made \in Nat /\ made' <= MaxUser /\ MaxUser \in Nat
  BY Counts, Rows, MadeGrows, AccountsAssumption DEF Typed, TypeOK
<1>1. DOMAIN row' \subseteq 1..made' /\ \A u \in DOMAIN row' : row'[u].invite <= issued'
  <2>0. /\ DOMAIN row \subseteq 1..made
        /\ \A u \in DOMAIN row : row[u].invite <= issued /\ row[u].invite \in Nat
    BY DEF Numbered, Typed, TypeOK, Account
  <2>1. CASE Leaves
    BY <1>0, <2>0, <2>1 DEF Leaves
  <2>2. ASSUME NEW w \in Worker, Removes(w)
        PROVE  DOMAIN row' \subseteq 1..made' /\ \A u \in DOMAIN row' : row'[u].invite <= issued'
    BY <1>0, <2>0, <2>2 DEF Removes
  <2> DEFINE G == DOMAIN row' \subseteq 1..made' /\ \A v \in DOMAIN row' : row'[v].invite <= issued'
  <2> HIDE DEF G
  <2>3. ASSUME NEW u, NEW co, NEW pw, NEW k \in 0..issued', NEW act, Writes(u, co, pw, k, act)
        PROVE  G
    BY <1>0, <2>0, <2>3 DEF Writes, G
  <2>4. ASSUME NEW e, NEW co, NEW pw, NEW k \in 0..issued', NEW act, Adds(e, co, pw, k, act)
        PROVE  G
    BY <1>0, <2>0, <2>4 DEF Adds, G
  <2>5. /\ 0 \in 0..issued'
        /\ issued' = issued + 1 => issued + 1 \in 0..issued'
        /\ \A w \in Worker : job[w].tok \in 0..issued'
        /\ \A u \in DOMAIN row : row[u].invite \in 0..issued'
    BY <1>0, <2>0, JobTyped DEF Fields
  <2>6. ASSUME NEW w \in Worker, Relinks(w) \/ Links(w) \/ Renews(w) \/ Enters(w)
        PROVE  G
    <3> DEFINE u == job[w].user
    <3>1. u \in DOMAIN row
      BY <2>6 DEF Relinks, Links, Renews, Enters, Writes
    <3>2. \/ Writes(u, job[w].co, row[u].pw, job[w].tok, row[u].activated)
          \/ Writes(u, job[w].co, row[u].pw, row[u].invite, row[u].activated)
          \/ Writes(u, row[u].co, row[u].pw, issued + 1, row[u].activated) /\ issued' = issued + 1
          \/ Writes(u, row[u].co, "set", 0, TRUE)
          \/ Writes(u, row[u].co, "reset", row[u].invite, TRUE)
      BY <2>6 DEF Relinks, Links, Renews, Enters
    <3> QED BY <2>3, <2>5, <3>1, <3>2
  <2>7. ASSUME NEW u \in User, Resets(u)
        PROVE  G
    <3>1. Writes(u, row[u].co, "set", 0, TRUE)
      BY <2>7 DEF Resets
    <3> QED BY <2>3, <2>5, <3>1
  <2>8. ASSUME NEW w \in Worker, Inserts(w)
        PROVE  G
    <3>1. Adds(job[w].to, job[w].co, "none", job[w].tok, FALSE)
      BY <2>8 DEF Inserts
    <3> QED BY <2>4, <2>5, <3>1
  <2>9. ASSUME Registers
        PROVE  G
    <3>1. PICK e \in Email : Adds(e, "none", "set", 0, TRUE)
      BY <2>9 DEF Registers
    <3> QED BY <2>4, <2>5, <3>1
  <2> QED BY <2>1, <2>2, <2>6, <2>7, <2>8, <2>9, Rows DEF Written, G
<1>2. DOMAIN magic' \subseteq 1..issued' /\ \A t \in DOMAIN magic' :
        magic'[t] \in [user : 1..made', used : BOOLEAN]
  <2>0. /\ DOMAIN magic \subseteq 1..issued'
        /\ \A t \in DOMAIN magic : magic[t] \in [user : 1..made', used : BOOLEAN]
        /\ DOMAIN row \subseteq 1..made'
    BY <1>0 DEF Numbered
  <2>1. CASE MagicMade
    BY <1>0, <2>0, <2>1 DEF MagicMade
  <2>2. CASE MagicLeft
    BY <2>0, <2>2 DEF MagicLeft
  <2>3. ASSUME NEW w \in Worker, MagicUsed(w)
        PROVE  /\ DOMAIN magic' \subseteq 1..issued'
               /\ \A t \in DOMAIN magic' : magic'[t] \in [user : 1..made', used : BOOLEAN]
    <3> DEFINE t == job[w].tok
               r == [magic[t] EXCEPT !.used = TRUE]
    <3>1. t \in DOMAIN magic /\ magic' = [magic EXCEPT ![t] = r]
      BY <2>3 DEF MagicUsed
    <3>2. r \in [user : 1..made', used : BOOLEAN]
      BY <2>0, <3>1
    <3> HIDE DEF r
    <3> QED BY <2>0, <3>1, <3>2
  <2> QED BY <2>1, <2>2, <2>3, Magics
<1>3. \A m \in mail' : m.user <= made'
  <2>1. ASSUME NEW m \in mail'
        PROVE  m.user <= made'
    <3>1. CASE m \in mail
      <4>1. m.user <= made /\ m.user \in Nat
        BY <3>1 DEF Numbered, Typed, TypeOK, User
      <4> QED BY <1>0, <4>1
    <3>2. CASE m \notin mail
      <4>1. PICK w \in Worker :
              m = [tok |-> job[w].tok, user |-> job[w].user, co |-> job[w].co]
        BY <3>2, Mails
      <4>2. job[w].user <= made /\ job[w].user \in Nat
        BY JobTyped DEF Fields
      <4> QED BY <1>0, <4>1, <4>2
    <3> QED BY <3>1, <3>2
  <2> QED BY <2>1
<1> QED BY <1>1, <1>2, <1>3 DEF Numbered

LEMMA JobStays ==
  ASSUME Typed, Fields, Numbered, [Next]_vars
  PROVE  /\ job' \in [Worker -> Job]
         /\ \/ \E w \in Worker : /\ Turns(w) /\ (Step(w) \/ job[w] = Idle)
                                  /\ \A v \in Worker : v # w => job'[v] = job[v]
            \/ job' = job
<1>1. ASSUME NEW w \in Worker, Turns(w)
      PROVE  job' \in [Worker -> Job] /\ \A v \in Worker : v # w => job'[v] = job[v]
  BY <1>1 DEF Turns, Starts, Looks, Passes, Ends, Goes, Serves
<1> QED BY <1>1, Steps DEF Typed

\* The accounts are sound: no two with one email or link, and none activated without a password.
Sound(R) ==
  /\ \A u \in DOMAIN R : R[u] \in Account /\ (R[u].activated => R[u].pw # "none")
  /\ \A u, v \in DOMAIN R : u # v => /\ R[u].email # R[v].email
                                     /\ R[u].invite # 0 => R[u].invite # R[v].invite

LEMMA WritesSound ==
  ASSUME Sound(row), NEW u, NEW co, NEW pw, NEW k, NEW act \in BOOLEAN, Writes(u, co, pw, k, act),
         act => pw # "none",
         k # 0 => \A v \in DOMAIN row : v # u => row[v].invite # k
  PROVE  Sound(row')
BY DEF Sound, Writes

LEMMA AddsSound ==
  ASSUME Sound(row), made + 1 \notin DOMAIN row,
         NEW e, NEW co, NEW pw, NEW k, NEW act \in BOOLEAN, Adds(e, co, pw, k, act),
         act => pw # "none",
         k # 0 => \A v \in DOMAIN row : row[v].invite # k
  PROVE  Sound(row')
BY DEF Sound, Adds

LEMMA SoundInv ==
  ASSUME IInv, [Next]_vars
  PROVE  Sound(row')
<1> USE DEF IInv
<1>0. /\ Sound(row) /\ made + 1 \notin DOMAIN row
      /\ \A u \in DOMAIN row : row[u].invite <= issued /\ row[u].invite \in Nat
      /\ issued \in Nat
  BY DEF Sound, Typed, TypeOK, Numbered, Account
<1>1. CASE Leaves
  BY <1>0, <1>1 DEF Leaves, Sound
<1>2. ASSUME NEW w \in Worker, Removes(w)
      PROVE  Sound(row')
  BY <1>0, <1>2 DEF Removes, Sound
<1>3. ASSUME NEW w \in Worker, job[w].todo \in Inserting \cup Relinking
      PROVE  \A v \in DOMAIN row : row[v].invite # job[w].tok
  BY <1>3 DEF Fresh
<1>4. ASSUME NEW w \in Worker, Relinks(w) \/ Links(w) \/ Renews(w) \/ Enters(w)
      PROVE  Sound(row')
  <2> DEFINE u == job[w].user
  <2>1. u \in DOMAIN row /\ row[u].activated \in BOOLEAN
          /\ (row[u].activated => row[u].pw # "none")
          /\ (row[u].invite # 0 => \A v \in DOMAIN row : v # u => row[v].invite # row[u].invite)
    <3>1. u \in DOMAIN row
      BY <1>4 DEF Relinks, Links, Renews, Enters, Writes
    <3> QED BY <1>0, <3>1 DEF Sound, Account
  <2>2. CASE Relinks(w)
    <3>1. \A v \in DOMAIN row : row[v].invite # job[w].tok
      BY <1>3, <2>2 DEF Relinks, Relinking
    <3>2. Writes(u, job[w].co, row[u].pw, job[w].tok, row[u].activated)
      BY <2>2 DEF Relinks
    <3> QED BY <1>0, <2>1, <3>1, <3>2, WritesSound
  <2>3. CASE Links(w)
    <3>1. Writes(u, job[w].co, row[u].pw, row[u].invite, row[u].activated)
      BY <2>3 DEF Links
    <3> QED BY <1>0, <2>1, <3>1, WritesSound
  <2>4. CASE Renews(w)
    <3>1. Writes(u, row[u].co, row[u].pw, issued + 1, row[u].activated)
      BY <2>4 DEF Renews
    <3>2. \A v \in DOMAIN row : row[v].invite # issued + 1
      BY <1>0
    <3> QED BY <1>0, <2>1, <3>1, <3>2, WritesSound
  <2>5. CASE Enters(w)
    <3>1. \/ Writes(u, row[u].co, "set", 0, TRUE)
          \/ Writes(u, row[u].co, "reset", row[u].invite, TRUE)
      BY <2>5 DEF Enters
    <3>2. CASE Writes(u, row[u].co, "set", 0, TRUE)
      BY <1>0, <2>1, <3>2 DEF Sound, Writes
    <3>3. CASE Writes(u, row[u].co, "reset", row[u].invite, TRUE)
      BY <1>0, <2>1, <3>3 DEF Sound, Writes
    <3> QED BY <3>1, <3>2, <3>3
  <2> QED BY <1>4, <2>2, <2>3, <2>4, <2>5
<1>5. ASSUME NEW u \in User, Resets(u)
      PROVE  Sound(row')
  <2>1. Writes(u, row[u].co, "set", 0, TRUE)
    BY <1>5 DEF Resets
  <2> QED BY <1>0, <2>1 DEF Sound, Writes
<1>6. ASSUME NEW w \in Worker, Inserts(w)
      PROVE  Sound(row')
  <2>1. Adds(job[w].to, job[w].co, "none", job[w].tok, FALSE)
    BY <1>6 DEF Inserts
  <2>2. \A v \in DOMAIN row : row[v].invite # job[w].tok
    BY <1>3, <1>6 DEF Inserts, Inserting
  <2> QED BY <1>0, <2>1, <2>2, AddsSound
<1>7. ASSUME Registers
      PROVE  Sound(row')
  <2>1. PICK e \in Email : Adds(e, "none", "set", 0, TRUE)
    BY <1>7 DEF Registers
  <2> QED BY <1>0, <2>1, AddsSound
<1> QED BY <1>1, <1>2, <1>4, <1>5, <1>6, <1>7, Rows DEF Written

LEMMA TypedInv ==
  ASSUME IInv, [Next]_vars
  PROVE  Typed'
<1> USE DEF IInv
<1>1. company' \in [Company -> {"none", "here", "gone"}] /\ contact' \in [Company -> Email]
  BY CompanyGrows, Contacts DEF CompanyGoes
<1>2. made' \in 0..MaxUser /\ issued' \in 0..MaxToken
  BY Counts, Rows, MadeGrows
<1>3. DOMAIN row' \subseteq User /\ DOMAIN magic' \subseteq Token
  <2>1. 1..made' \subseteq User /\ 1..issued' \subseteq Token
    BY <1>2, AccountsAssumption DEF User, Token
  <2> QED BY <2>1, NumberedInv DEF Numbered
<1>4. mail' \subseteq [tok : Token, user : User, co : Company]
  <2>1. ASSUME NEW m \in mail', m \notin mail
        PROVE  m \in [tok : Token, user : User, co : Company]
    <3>1. PICK w \in Worker :
            /\ job[w].todo \in Mailing
            /\ m = [tok |-> job[w].tok, user |-> job[w].user, co |-> job[w].co]
      BY <2>1, Mails
    <3>2. job[w].tok # 0 /\ job[w].user # 0 /\ job[w].co \in Company
      BY <3>1 DEF Fields, OfCompany
    <3>3. job[w].tok \in Token /\ job[w].user \in User
      BY <3>2, JobTyped, AccountsAssumption DEF Token, User
    <3> QED BY <3>1, <3>2, <3>3
  <2> QED BY <2>1 DEF Typed, TypeOK
<1>5. past' \in Past
  BY PastGrows DEF PastGoes
<1>6. job' \in [Worker -> Job]
  BY JobStays
<1> QED BY <1>1, <1>2, <1>3, <1>4, <1>5, <1>6, SoundInv DEF Sound, Typed, TypeOK

\* What a request that serves some steps next has to know.
Knows(todo, co, to, user, tok) ==
  /\ user <= made' /\ tok <= issued'
  /\ todo \in OfCompany => co \in Company /\ company'[co] # "none"
  /\ todo \in Looking \cup Inserting => to \in past'.contacts[co]
  /\ todo \in Inserting \cup Relinking \cup Mailing \cup SigningIn => tok # 0
  /\ todo \in Relinking \cup Adopting \cup Reissuing \cup Mailing => user # 0
  /\ todo \in Deleting => company'[co] = "gone"

LEMMA FieldsInv ==
  ASSUME IInv, [Next]_vars
  PROVE  Fields'
<1> USE DEF IInv
<1>0. /\ made <= made' /\ issued <= issued' /\ made \in Nat /\ issued \in Nat
      /\ made' \in Nat /\ issued' \in Nat
      /\ issued' \in {issued, issued + 1}
  BY Counts, Rows, MadeGrows, AccountsAssumption DEF Typed, TypeOK
<1>1. CompanyGoes /\ PastGoes
  BY CompanyGrows, PastGrows
<1>2. \A c \in Company : contact[c] \in past'.contacts[c]
  BY <1>1 DEF Linked, PastGoes
<1>3. ASSUME NEW w \in Worker
      PROVE  /\ Knows(job[w].todo, job[w].co, job[w].to, job[w].user, job[w].tok)
             /\ job[w].user <= made' /\ job[w].tok <= issued'
             /\ job[w].user \in Nat /\ job[w].tok \in Nat
  <2>1. job[w].user \in Nat /\ job[w].tok \in Nat
    BY JobTyped
  <2>2. job[w].user <= made' /\ job[w].tok <= issued'
    BY <1>0, <2>1 DEF Fields
  <2>3. /\ job[w].todo \in OfCompany => job[w].co \in Company /\ company'[job[w].co] # "none"
        /\ job[w].todo \in Deleting => company'[job[w].co] = "gone"
    BY <1>1 DEF Fields, CompanyGoes, OfCompany
  <2>4. job[w].todo \in Looking \cup Inserting => job[w].to \in past'.contacts[job[w].co]
    <3>1. SUFFICES ASSUME job[w].todo \in Looking \cup Inserting
                   PROVE  job[w].to \in past'.contacts[job[w].co]
      OBVIOUS
    <3>2. job[w].co \in Company /\ job[w].to \in past.contacts[job[w].co]
      BY <3>1 DEF Fields, OfCompany
    <3> QED BY <1>1, <3>2 DEF PastGoes
  <2> QED BY <2>1, <2>2, <2>3, <2>4 DEF Knows, Fields
<1>4. ASSUME NEW w \in Worker, NEW t, NEW co, NEW to, NEW u, NEW k, Serves(w, t, co, to, u, k),
             Knows(t, co, to, u, k)
      PROVE  LET j == job'[w] IN Knows(j.todo, j.co, j.to, j.user, j.tok)
  BY <1>4 DEF Serves
<1>5. ASSUME NEW w \in Worker, Ends(w)
      PROVE  LET j == job'[w] IN Knows(j.todo, j.co, j.to, j.user, j.tok)
  <2>1. Knows(<<>>, "none", "none", 0, 0)
    BY <1>0 DEF Knows, OfCompany, Looking, Inserting, Relinking, Adopting, Reissuing, Mailing,
       Dropping, Deleting, SigningIn
  <2> QED BY <1>4, <1>5, <2>1 DEF Ends
<1>6. ASSUME NEW w \in Worker, Starts(w)
      PROVE  LET j == job'[w] IN Knows(j.todo, j.co, j.to, j.user, j.tok)
  <2> USE DEF Knows, OfCompany, Looking, Inserting, Relinking, Adopting, Reissuing, Mailing,
              Dropping, Deleting, SigningIn
  <2>1. ASSUME NEW c \in Company, company'[c] = "here",
               \/ Serves(w, <<"find">>, c, contact[c], 0, 0)
               \/ Serves(w, <<"client">>, c, contact[c], 0, 0)
               \/ Serves(w, <<"linked">>, c, "none", 0, 0)
        PROVE  LET j == job'[w] IN Knows(j.todo, j.co, j.to, j.user, j.tok)
    <3>1. /\ Knows(<<"find">>, c, contact[c], 0, 0) /\ Knows(<<"client">>, c, contact[c], 0, 0)
          /\ Knows(<<"linked">>, c, "none", 0, 0)
      BY <1>0, <1>2, <2>1
    <3> HIDE DEF Knows
    <3> QED BY <1>4, <2>1, <3>1
  <2>2. ASSUME NEW u \in DOMAIN row, NEW t \in Token, t <= issued,
               Serves(w, <<"activate">>, "none", "none", u, t)
        PROVE  LET j == job'[w] IN Knows(j.todo, j.co, j.to, j.user, j.tok)
    <3>1. u <= made' /\ t <= issued'
      BY <1>0, <2>2, AccountsAssumption DEF Numbered, Token
    <3>2. Knows(<<"activate">>, "none", "none", u, t)
      BY <3>1
    <3> HIDE DEF Knows
    <3> QED BY <1>4, <2>2, <3>2
  <2>3. ASSUME NEW t \in Token, verifyLogin(w, t),
               Serves(w, <<"use">>, "none", "none", magic[t].user, t)
        PROVE  LET j == job'[w] IN Knows(j.todo, j.co, j.to, j.user, j.tok)
    <3>1. t \in DOMAIN magic
      BY <2>3 DEF verifyLogin, Usable
    <3>2. t \in 1..issued /\ magic[t].user \in 1..made
      BY <3>1 DEF Numbered
    <3>3. t # 0 /\ t <= issued' /\ magic[t].user <= made'
      BY <1>0, <3>2
    <3>4. Knows(<<"use">>, "none", "none", magic[t].user, t)
      BY <3>3
    <3> HIDE DEF Knows
    <3> QED BY <1>4, <2>3, <3>4
  <2>4. ASSUME NEW u \in DOMAIN row, Serves(w, <<"renew">>, "none", "none", u, 0)
        PROVE  LET j == job'[w] IN Knows(j.todo, j.co, j.to, j.user, j.tok)
    <3>1. u <= made'
      BY <1>0 DEF Numbered
    <3>2. Knows(<<"renew">>, "none", "none", u, 0)
      BY <1>0, <3>1
    <3> HIDE DEF Knows
    <3> QED BY <1>4, <2>4, <3>2
  <2> QED BY <1>6, <2>1, <2>2, <2>3, <2>4 DEF Starts
<1>7. ASSUME NEW w \in Worker, Looks(w)
      PROVE  LET j == job'[w] IN Knows(j.todo, j.co, j.to, j.user, j.tok)
  <2> DEFINE K(t, u, k) == Knows(t, job[w].co, job[w].to, u, k)
  <2>1. \A u \in DOMAIN row : u <= made' /\ u # 0
    BY <1>0 DEF Numbered
  <2>2. job[w].todo \in OfCompany
    BY <1>7 DEF Looks, OfCompany, Looking
  <2>3. /\ job[w].co \in Company /\ company'[job[w].co] # "none"
        /\ job[w].todo \in Looking => job[w].to \in past'.contacts[job[w].co]
    BY <1>3, <2>2 DEF Knows
  <2>4. /\ \A u \in {0} \cup DOMAIN row : K(<<"unlink", "drop", "delete">>, u, job[w].tok)
        /\ \A u \in DOMAIN row, t \in Reissuing \cup Adopting : K(t, u, job[w].tok)
        /\ issued' = issued + 1 => \A u \in DOMAIN row : K(<<"relink", "mail">>, u, issued + 1)
    BY <1>0, <1>3, <2>1, <2>3 DEF Knows, OfCompany, Looking, Inserting, Relinking, Adopting,
       Reissuing, Mailing, Dropping, Deleting, SigningIn
  <2>5. job[w].todo \in Looking =>
          /\ K(<<"find">>, job[w].user, job[w].tok) /\ K(<<"byemail">>, job[w].user, job[w].tok)
          /\ issued' = issued + 1 => K(<<"insert", "mail">>, job[w].user, issued + 1)
    BY <1>0, <1>3, <2>3 DEF Knows, OfCompany, Looking, Inserting, Relinking, Adopting,
       Reissuing, Mailing, Dropping, Deleting, SigningIn
  <2>6. \E t, u, k : K(t, u, k) /\ Goes(w, t, u, k)
    <3>1. CASE job[w].todo = <<"linked">>
      BY <1>7, <2>4, <3>1 DEF Looks
    <3>2. CASE job[w].todo = <<"find">>
      BY <1>7, <2>4, <2>5, <3>2 DEF Looks, Looking
    <3>3. CASE job[w].todo = <<"client">>
      BY <1>7, <2>4, <2>5, <3>3 DEF Looks, Looking, Reissuing
    <3>4. CASE job[w].todo = <<"byemail">>
      BY <1>7, <2>4, <2>5, <3>4 DEF Looks, Looking, Reissuing, Adopting
    <3> QED BY <1>7, <3>1, <3>2, <3>3, <3>4 DEF Looks
  <2> QED BY <1>4, <2>6 DEF Goes
<1>8. ASSUME NEW w \in Worker, Passes(w)
      PROVE  LET j == job'[w] IN Knows(j.todo, j.co, j.to, j.user, j.tok)
  <2> DEFINE K(t, u, k) == Knows(t, job[w].co, job[w].to, u, k)
  <2> USE DEF OfCompany, Looking, Inserting, Relinking, Adopting, Reissuing, Mailing, Dropping,
              Deleting, SigningIn
  <2>1. job[w].todo # <<"use">> => job[w].co \in Company /\ company'[job[w].co] # "none"
    BY <1>3, <1>8 DEF Passes, Knows
  <2>2. CASE job[w].todo \in Dropping
    <3>1. \/ /\ K(<<"drop", "delete">>, job[w].user, job[w].tok)
             /\ Goes(w, <<"drop", "delete">>, job[w].user, job[w].tok)
          \/ /\ K(<<"delete">>, job[w].user, job[w].tok)
             /\ Goes(w, <<"delete">>, job[w].user, job[w].tok)
      BY <1>3, <1>8, <2>1, <2>2 DEF Passes, Knows
    <3> QED BY <1>4, <3>1 DEF Goes
  <2>3. CASE job[w].todo = <<"relink", "mail">>
    <3>1. Goes(w, <<"mail">>, job[w].user, job[w].tok) /\ row'[job[w].user].invite = job[w].tok
      BY <1>8, <2>3 DEF Passes
    <3>2. job[w].user # 0 /\ job[w].tok # 0
      BY <2>3 DEF Fields
    <3>3. K(<<"mail">>, job[w].user, job[w].tok)
      BY <1>3, <2>1, <2>3, <3>2 DEF Knows
    <3> QED BY <1>4, <3>1, <3>3 DEF Goes
  <2>4. CASE job[w].todo = <<"insert", "mail">>
    <3>1. Goes(w, <<"mail">>, made + 1, job[w].tok) /\ made' = made + 1
      BY <1>8, <2>4 DEF Passes
    <3>2. job[w].tok # 0 /\ made + 1 # 0 /\ made + 1 <= made'
      <4>1. job[w].tok # 0
        BY <2>4 DEF Fields
      <4> QED BY <1>0, <3>1, <4>1
    <3>3. K(<<"mail">>, made + 1, job[w].tok)
      BY <1>3, <2>1, <2>4, <3>2 DEF Knows
    <3> QED BY <1>4, <3>1, <3>3 DEF Goes
  <2>5. CASE job[w].todo = <<"adopt", "reissue", "mail">>
    <3>1. Goes(w, <<"reissue", "mail">>, job[w].user, job[w].tok)
      BY <1>8, <2>5 DEF Passes
    <3>2. K(<<"reissue", "mail">>, job[w].user, job[w].tok)
      BY <1>3, <2>1, <2>5 DEF Knows
    <3> QED BY <1>4, <3>1, <3>2 DEF Goes
  <2>6. CASE job[w].todo = <<"reissue", "mail">>
    <3>1. Goes(w, <<"mail">>, job[w].user, issued + 1) /\ issued' = issued + 1
      BY <1>8, <2>6 DEF Passes
    <3>2. job[w].user # 0
      BY <2>6 DEF Fields
    <3>3. K(<<"mail">>, job[w].user, issued + 1)
      BY <1>0, <1>3, <2>1, <2>6, <3>1, <3>2 DEF Knows
    <3> QED BY <1>4, <3>1, <3>3 DEF Goes
  <2>7. CASE job[w].todo = <<"use">>
    <3>1. Goes(w, <<"session">>, job[w].user, job[w].tok)
      BY <1>8, <2>7 DEF Passes
    <3>2. job[w].tok # 0
      BY <2>7 DEF Fields
    <3>3. K(<<"session">>, job[w].user, job[w].tok)
      BY <1>3, <3>2 DEF Knows
    <3> QED BY <1>4, <3>1, <3>3 DEF Goes
  <2> QED BY <1>8, <2>2, <2>3, <2>4, <2>5, <2>6, <2>7 DEF Passes
<1>9. ASSUME NEW w \in Worker
      PROVE  LET j == job'[w] IN Knows(j.todo, j.co, j.to, j.user, j.tok)
  <2>1. job'[w] = job[w] \/ Turns(w)
    BY JobStays
  <2> QED BY <1>3, <1>5, <1>6, <1>7, <1>8, <2>1 DEF Turns
<1> QED BY <1>9 DEF Fields, Knows

\* A link that a request has drawn was with it before, or is drawn now.
LEMMA Draws ==
  ASSUME Typed, Fields, Numbered, [Next]_vars,
         NEW w \in Worker, job'[w].todo \in Inserting \cup Relinking
  PROVE  \/ job'[w] = job[w]
         \/ /\ job'[w].tok = issued + 1 /\ issued' = issued + 1 /\ row' = row
            /\ \A v \in Worker : v # w => job'[v] = job[v]
<1> SUFFICES ASSUME job'[w] # job[w]
             PROVE  /\ job'[w].tok = issued + 1 /\ issued' = issued + 1 /\ row' = row
                    /\ \A v \in Worker : v # w => job'[v] = job[v]
  OBVIOUS
<1>1. Turns(w) /\ \A v \in Worker : v # w => job'[v] = job[v]
  BY JobStays
<1>2. ASSUME NEW t, NEW co, NEW to, NEW u, NEW k, Serves(w, t, co, to, u, k)
      PROVE  t \in Inserting \cup Relinking /\ job'[w].tok = k
  BY <1>2 DEF Serves
<1>3. ~Ends(w) /\ ~Starts(w) /\ ~Passes(w)
  <2>1. /\ <<>> \notin Inserting \cup Relinking
        /\ <<"find">> \notin Inserting \cup Relinking /\ <<"client">> \notin Inserting \cup Relinking
        /\ <<"linked">> \notin Inserting \cup Relinking
        /\ <<"activate">> \notin Inserting \cup Relinking
        /\ <<"use">> \notin Inserting \cup Relinking /\ <<"renew">> \notin Inserting \cup Relinking
        /\ <<"drop", "delete">> \notin Inserting \cup Relinking
        /\ <<"delete">> \notin Inserting \cup Relinking /\ <<"mail">> \notin Inserting \cup Relinking
        /\ <<"reissue", "mail">> \notin Inserting \cup Relinking
        /\ <<"session">> \notin Inserting \cup Relinking
    BY DEF Inserting, Relinking
  <2> QED BY <1>2, <2>1 DEF Ends, Starts, Passes, Goes
<1>4. Looks(w)
  BY <1>1, <1>3 DEF Turns
<1>5. /\ <<"unlink", "drop", "delete">> \notin Inserting \cup Relinking
      /\ <<"byemail">> \notin Inserting \cup Relinking /\ <<"find">> \notin Inserting \cup Relinking
      /\ <<"adopt">> \notin Inserting \cup Relinking
      /\ <<"reissue", "mail">> \notin Inserting \cup Relinking
      /\ \A t \in Reissuing \cup {<<"adopt", "reissue", "mail">>} : t \notin Inserting \cup Relinking
  BY DEF Inserting, Relinking, Reissuing
<1>6. row' = row /\ issued' = issued + 1 /\ \E t, u : Goes(w, t, u, issued + 1)
  BY <1>2, <1>4, <1>5 DEF Looks, Goes
<1> QED BY <1>1, <1>2, <1>6 DEF Goes

\* Where the links that accounts hold after a step come from.
LEMMA Holds ==
  ASSUME IInv, [Next]_vars
  PROVE  \A u \in DOMAIN row' :
           \/ row'[u].invite = 0
           \/ u \in DOMAIN row /\ row'[u].invite = row[u].invite
           \/ row'[u].invite = issued + 1
           \/ \E v \in Worker : /\ job[v].todo \in Inserting \cup Relinking
                                /\ job'[v].todo \in Mailing
                                /\ row'[u].invite = job[v].tok
<1> USE DEF IInv
<1> DEFINE G == \A u \in DOMAIN row' :
                  \/ row'[u].invite = 0
                  \/ u \in DOMAIN row /\ row'[u].invite = row[u].invite
                  \/ row'[u].invite = issued + 1
                  \/ \E v \in Worker : /\ job[v].todo \in Inserting \cup Relinking
                                       /\ job'[v].todo \in Mailing
                                       /\ row'[u].invite = job[v].tok
<1>1. CASE Leaves
  BY <1>1 DEF Leaves
<1>2. ASSUME NEW w \in Worker, Removes(w)
      PROVE  G
  BY <1>2 DEF Removes
<1>3. ASSUME NEW w \in Worker, Relinks(w)
      PROVE  G
  <2>1. job[w].todo \in Inserting \cup Relinking /\ job'[w].todo \in Mailing
    BY <1>3 DEF Relinks, Relinking, Goes, Serves, Mailing
  <2> QED BY <1>3, <2>1 DEF Relinks, Writes
<1>4. ASSUME NEW w \in Worker, Links(w) \/ Renews(w) \/ Enters(w)
      PROVE  G
  BY <1>4 DEF Links, Renews, Enters, Writes
<1>5. ASSUME NEW u \in User, Resets(u)
      PROVE  G
  BY <1>5 DEF Resets, Writes
<1>6. ASSUME NEW w \in Worker, Inserts(w)
      PROVE  G
  <2>1. job[w].todo \in Inserting \cup Relinking /\ job'[w].todo \in Mailing
    BY <1>6 DEF Inserts, Inserting, Goes, Serves, Mailing
  <2> QED BY <1>6, <2>1 DEF Inserts, Adds
<1>7. CASE Registers
  BY <1>7 DEF Registers, Adds
<1> QED BY <1>1, <1>2, <1>3, <1>4, <1>5, <1>6, <1>7, Rows DEF Written

LEMMA FreshInv ==
  ASSUME IInv, [Next]_vars
  PROVE  Fresh'
<1> USE DEF IInv
<1> DEFINE Has(t) == t \in Inserting \cup Relinking
<1>0. /\ \A w \in Worker : job[w].tok \in Nat /\ job[w].tok <= issued
      /\ \A u \in DOMAIN row : row[u].invite <= issued /\ row[u].invite \in Nat
      /\ issued \in Nat
  BY JobTyped DEF Fields, Numbered, Typed, TypeOK, Account
<1>1. SUFFICES ASSUME NEW w \in Worker, Has(job'[w].todo)
               PROVE  /\ \A u \in DOMAIN row' : row'[u].invite # job'[w].tok
                      /\ \A v \in Worker : Has(job'[v].todo) /\ job'[v].tok = job'[w].tok => v = w
  BY DEF Fresh
<1>2. CASE job'[w] = job[w]
  <2>1. Has(job[w].todo) /\ job[w].tok # 0
    BY <1>1, <1>2 DEF Fields
  <2>2. \A u \in DOMAIN row' : row'[u].invite # job'[w].tok
    <3>1. ASSUME NEW u \in DOMAIN row', row'[u].invite = job[w].tok
          PROVE  FALSE
      <4>1. row'[u].invite # issued + 1 /\ row'[u].invite # 0
        BY <1>0, <2>1, <3>1
      <4>2. ~(u \in DOMAIN row /\ row'[u].invite = row[u].invite)
        BY <2>1, <3>1 DEF Fresh
      <4>3. PICK v \in Worker : /\ Has(job[v].todo) /\ job'[v].todo \in Mailing
                                /\ row'[u].invite = job[v].tok
        BY <4>1, <4>2, Holds
      <4>4. v = w
        BY <2>1, <3>1, <4>3 DEF Fresh
      <4> QED BY <1>1, <4>3, <4>4 DEF Inserting, Relinking, Mailing
    <3> QED BY <1>2, <3>1
  <2>3. ASSUME NEW v \in Worker, Has(job'[v].todo), job'[v].tok = job'[w].tok
        PROVE  v = w
    <3>1. job'[v] = job[v] \/ job'[v].tok = issued + 1
      BY <2>3, Draws
    <3>2. job'[v].tok # issued + 1
      BY <1>0, <1>2, <2>3
    <3>3. job'[v] = job[v]
      BY <3>1, <3>2
    <3> QED BY <1>2, <2>1, <2>3, <3>3 DEF Fresh
  <2> QED BY <2>2, <2>3
<1>3. CASE job'[w] # job[w]
  <2>1. /\ job'[w].tok = issued + 1 /\ row' = row
        /\ \A v \in Worker : v # w => job'[v] = job[v]
    BY <1>1, <1>3, Draws
  <2>2. \A u \in DOMAIN row' : row'[u].invite # job'[w].tok
    BY <1>0, <2>1
  <2>3. \A v \in Worker : v # w => job'[v].tok # job'[w].tok
    BY <1>0, <2>1
  <2> QED BY <2>2, <2>3
<1> QED BY <1>2, <1>3

LEMMA EnterableInv ==
  ASSUME IInv, [Next]_vars
  PROVE  Enterable'
<1> USE DEF IInv
<1>0. issued + 1 # 0 /\ \A u \in DOMAIN row : row[u].activated \/ row[u].invite # 0
  BY DEF Enterable, Typed, TypeOK
<1>1. CASE Leaves
  BY <1>0, <1>1 DEF Leaves, Enterable
<1>2. ASSUME NEW w \in Worker, Removes(w)
      PROVE  Enterable'
  BY <1>0, <1>2 DEF Removes, Enterable
<1>3. ASSUME NEW w \in Worker, Relinks(w)
      PROVE  Enterable'
  <2>1. job[w].tok # 0
    BY <1>3 DEF Relinks, Relinking, Fields
  <2> QED BY <1>0, <1>3, <2>1 DEF Relinks, Writes, Enterable
<1>4. ASSUME NEW w \in Worker, Links(w) \/ Renews(w) \/ Enters(w)
      PROVE  Enterable'
  BY <1>0, <1>4 DEF Links, Renews, Enters, Writes, Enterable
<1>5. ASSUME NEW u \in User, Resets(u)
      PROVE  Enterable'
  BY <1>0, <1>5 DEF Resets, Writes, Enterable
<1>6. ASSUME NEW w \in Worker, Inserts(w)
      PROVE  Enterable'
  <2>1. job[w].tok # 0
    BY <1>6 DEF Inserts, Inserting, Fields
  <2> QED BY <1>0, <1>6, <2>1 DEF Inserts, Adds, Enterable
<1>7. CASE Registers
  BY <1>0, <1>7 DEF Registers, Adds, Enterable
<1> QED BY <1>1, <1>2, <1>3, <1>4, <1>5, <1>6, <1>7, Rows DEF Written

\* Emails stay, and an account that was not there has the next id.
LEMMA Emails ==
  ASSUME IInv, [Next]_vars
  PROVE  \A u \in DOMAIN row' : IF u \in DOMAIN row THEN row'[u].email = row[u].email
                                ELSE u = made + 1
<1> USE DEF IInv
<1>0. made + 1 \notin DOMAIN row
  BY DEF Numbered, Typed, TypeOK
<1> QED BY <1>0, Rows DEF Written, Leaves, Removes, Relinks, Links, Renews, Enters, Resets, Inserts,
        Registers, Writes, Adds

LEMMA LinkedInv ==
  ASSUME IInv, [Next]_vars
  PROVE  Linked'
<1> USE DEF IInv
<1>0. /\ PastGoes /\ made \in Nat /\ DOMAIN row \subseteq 1..made /\ "none" \notin Company
      /\ \A u \in DOMAIN row : row[u].co \in Company \cup {"none"}
  BY PastGrows, AccountsAssumption DEF Numbered, Typed, TypeOK, Account
<1>1. \A c \in Company : contact'[c] \in past'.contacts[c]
  BY <1>0, Contacts DEF Linked, PastGoes
<1>2. \A u \in DOMAIN row' : row'[u].co # "none" => row'[u].email \in past'.contacts[row'[u].co]
  <2> DEFINE G == \A u \in DOMAIN row' :
                    row'[u].co # "none" => row'[u].email \in past'.contacts[row'[u].co]
  <2>0. \A u \in DOMAIN row : row[u].co # "none" => row[u].email \in past'.contacts[row[u].co]
    BY <1>0 DEF Linked, PastGoes
  <2>1. CASE Leaves
    BY <2>0, <2>1 DEF Leaves
  <2>2. ASSUME NEW w \in Worker, Removes(w)
        PROVE  G
    BY <2>0, <2>2 DEF Removes
  <2>3. ASSUME NEW w \in Worker, Relinks(w) \/ Links(w)
        PROVE  G
    <3>1. job[w].todo \in Linking
      BY <2>3 DEF Relinks, Links, Linking, Relinking, Adopting
    <3>2. job[w].user \in DOMAIN row
      BY <2>3 DEF Relinks, Links, Writes
    <3>3. job[w].co \in Company
      BY <3>1 DEF Linking, Fields, OfCompany
    <3>4. row[job[w].user].email \in past'.contacts[job[w].co]
      BY <1>0, <3>1, <3>2, <3>3 DEF Linked, PastGoes
    <3> QED BY <2>0, <2>3, <3>4 DEF Relinks, Links, Writes
  <2>4. ASSUME NEW w \in Worker, Renews(w) \/ Enters(w)
        PROVE  G
    BY <2>0, <2>4 DEF Renews, Enters, Writes
  <2>5. ASSUME NEW u \in User, Resets(u)
        PROVE  G
    BY <2>0, <2>5 DEF Resets, Writes
  <2>6. ASSUME NEW w \in Worker, Inserts(w)
        PROVE  G
    <3>1. job[w].co \in Company /\ job[w].to \in past.contacts[job[w].co]
      BY <2>6 DEF Inserts, Inserting, Fields, OfCompany
    <3>2. job[w].to \in past'.contacts[job[w].co]
      BY <1>0, <3>1 DEF PastGoes
    <3> QED BY <2>0, <2>6, <3>2 DEF Inserts, Adds
  <2>7. CASE Registers
    BY <2>0, <2>7 DEF Registers, Adds
  <2> QED BY <2>1, <2>2, <2>3, <2>4, <2>5, <2>6, <2>7, Rows DEF Written
<1>3. ASSUME NEW w \in Worker, job'[w].todo \in Linking, job'[w].user \in DOMAIN row'
      PROVE  row'[job'[w].user].email \in past'.contacts[job'[w].co]
  <2>1. CASE job'[w].co = job[w].co /\ job'[w].user = job[w].user /\ job[w].todo \in Linking
    <3>1. job[w].user # made + 1 /\ job[w].co \in Company
      BY <1>0, <2>1, JobTyped DEF Fields, Linking, OfCompany
    <3>2. job[w].user \in DOMAIN row /\ row'[job[w].user].email = row[job[w].user].email
      BY <1>3, <2>1, <3>1, Emails
    <3>3. row[job[w].user].email \in past'.contacts[job[w].co]
      BY <1>0, <2>1, <3>1, <3>2 DEF Linked, PastGoes
    <3> QED BY <2>1, <3>2, <3>3
  <2>2. ASSUME NEW u, u \in DOMAIN row => row[u].email \in past.contacts[job[w].co],
               job'[w].co = job[w].co, job'[w].user = u, row' = row, job[w].co \in Company
        PROVE  row'[job'[w].user].email \in past'.contacts[job'[w].co]
    BY <1>0, <1>3, <2>2 DEF PastGoes
  <2>3. CASE Looks(w)
    <3>1. job[w].co \in Company /\ row' = row
      BY <2>3 DEF Looks, Fields, OfCompany, Looking
    <3>2. /\ <<"insert", "mail">> \notin Linking /\ <<"byemail">> \notin Linking
          /\ <<"find">> \notin Linking /\ <<"reissue", "mail">> \notin Linking
          /\ \A t \in Reissuing : t \notin Linking
      BY DEF Linking, Relinking, Adopting, Dropping, Deleting, Reissuing
    <3>3. \A t, u, k : Goes(w, t, u, k) =>
            job'[w].co = job[w].co /\ job'[w].user = u /\ t \in Linking
      BY <1>3 DEF Goes, Serves
    <3>4. CASE job[w].todo = <<"linked">>
      <4>1. PICK u \in {0} \cup {v \in DOMAIN row : row[v].co = job[w].co} :
              Goes(w, <<"unlink", "drop", "delete">>, u, job[w].tok)
        <5>1. /\ job[w].todo # <<"find">> /\ job[w].todo # <<"client">>
              /\ job[w].todo # <<"byemail">>
          BY <3>4
        <5> HIDE <3>4
        <5> QED BY <2>3, <5>1 DEF Looks
      <4>2. u \in DOMAIN row => row[u].email \in past.contacts[job[w].co]
        BY <1>0, <3>1, <4>1 DEF Linked
      <4> QED BY <2>2, <3>1, <3>3, <4>1, <4>2
    <3>5. CASE job[w].todo \in Looking
      <4>1. job[w].to \in past.contacts[job[w].co]
        BY <3>5 DEF Fields
      <4>2. \E u \in DOMAIN row : row[u].email = job[w].to /\ job'[w].user = u
                                  /\ job'[w].co = job[w].co
        BY <2>3, <3>2, <3>3, <3>5 DEF Looks, Looking
      <4> QED BY <2>2, <3>1, <4>1, <4>2
    <3> QED BY <2>3, <3>4, <3>5 DEF Looks, Looking
  <2>4. CASE Passes(w)
    <3>1. /\ <<"mail">> \notin Linking /\ <<"reissue", "mail">> \notin Linking
          /\ <<"session">> \notin Linking
      BY DEF Linking, Relinking, Adopting, Dropping, Deleting
    <3>2. \A t, u, k : Goes(w, t, u, k) =>
            job'[w].co = job[w].co /\ job'[w].user = u /\ t \in Linking
      BY <1>3 DEF Goes, Serves
    <3>3. job'[w].co = job[w].co /\ job'[w].user = job[w].user /\ job[w].todo \in Linking
      BY <2>4, <3>1, <3>2 DEF Passes, Linking, Dropping
    <3> QED BY <2>1, <3>3
  <2>5. CASE Starts(w) \/ Ends(w)
    <3>1. /\ <<"find">> \notin Linking /\ <<"client">> \notin Linking
          /\ <<"linked">> \notin Linking /\ <<"activate">> \notin Linking
          /\ <<"use">> \notin Linking /\ <<"renew">> \notin Linking /\ <<>> \notin Linking
      BY DEF Linking, Relinking, Adopting, Dropping, Deleting
    <3>2. \A t, co, to, u, k : Serves(w, t, co, to, u, k) => t \in Linking
      BY <1>3 DEF Serves
    <3> QED BY <2>5, <3>1, <3>2 DEF Starts, Ends
  <2> QED BY <2>1, <2>3, <2>4, <2>5, <1>3, JobStays DEF Turns
<1> QED BY <1>1, <1>2, <1>3 DEF Linked

\* How the link or the state of an account that stays may change.
SameAccess(u) == /\ row'[u].invite = row[u].invite /\ row'[u].activated = row[u].activated
                 /\ row'[u].pw = row[u].pw

NewLink(w, u) ==
  /\ job[w].user = u /\ Noted(w, u) /\ job[w].todo \in Inviting /\ job'[w].todo \in Mailing
  /\ row'[u].activated = row[u].activated
  /\ \/ job[w].todo \in Relinking /\ row'[u].invite = job[w].tok
     \/ issued' = issued + 1 /\ row'[u].invite = issued + 1

NewPassword(w, u) ==
  /\ job[w].user = u /\ Noted(w, u) /\ job[w].todo \in Entering
  /\ row'[u].activated = TRUE /\ (row'[u].invite = 0 \/ row'[u].pw = "reset")

DefaultPassword(u) ==
  /\ \A w \in Worker : job[w].user = u => u \in past'.raced
  /\ row'[u].activated = TRUE /\ row'[u].invite = 0

LEMMA Access ==
  ASSUME IInv, [Next]_vars, NEW u \in DOMAIN row, u \in DOMAIN row'
  PROVE  \/ SameAccess(u) \/ DefaultPassword(u)
         \/ \E w \in Worker : NewLink(w, u) \/ NewPassword(w, u)
<1> USE DEF IInv
<1>0. made + 1 \notin DOMAIN row
  BY DEF Numbered, Typed, TypeOK
<1>1. CASE Leaves
  BY <1>1 DEF Leaves, SameAccess
<1>2. ASSUME NEW w \in Worker, Removes(w)
      PROVE  SameAccess(u)
  BY <1>2 DEF Removes, SameAccess
<1>3. ASSUME NEW w \in Worker, Relinks(w), job[w].user = u
      PROVE  NewLink(w, u)
  BY <1>3 DEF Relinks, NewLink, Writes, Inviting, Relinking, Mailing, Goes, Serves
<1>4. ASSUME NEW w \in Worker, Links(w), job[w].user = u
      PROVE  SameAccess(u)
  BY <1>4 DEF Links, Writes, SameAccess
<1>5. ASSUME NEW w \in Worker, Renews(w), job[w].user = u
      PROVE  NewLink(w, u)
  BY <1>5 DEF Renews, NewLink, Writes, Inviting, Reissuing, Mailing, Goes, Serves
<1>6. ASSUME NEW w \in Worker, Enters(w), job[w].user = u
      PROVE  NewPassword(w, u)
  BY <1>6 DEF Enters, NewPassword, Writes
<1>7. ASSUME NEW w \in Worker, Relinks(w) \/ Links(w) \/ Renews(w) \/ Enters(w), job[w].user # u
      PROVE  SameAccess(u)
  BY <1>7 DEF Relinks, Links, Renews, Enters, Writes, SameAccess
<1>8. ASSUME NEW v \in User, Resets(v)
      PROVE  SameAccess(u) \/ DefaultPassword(u)
  BY <1>8 DEF Resets, Writes, SameAccess, DefaultPassword
<1>9. ASSUME Registers \/ \E w \in Worker : Inserts(w)
      PROVE  SameAccess(u)
  BY <1>0, <1>9 DEF Registers, Inserts, Adds, SameAccess
<1> QED BY <1>1, <1>2, <1>3, <1>4, <1>5, <1>6, <1>7, <1>8, <1>9, Rows DEF Written

\* A request that is about to write a link was, or has found an account not activated.
LEMMA InvitingFrom ==
  ASSUME IInv, [Next]_vars, NEW w \in Worker, job'[w].todo \in Inviting
  PROVE  \/ job[w].todo \in Inviting /\ job'[w].user = job[w].user
         \/ row' = row /\ \E u \in DOMAIN row : job'[w].user = u /\ ~row[u].activated
<1> USE DEF IInv
<1>1. CASE job'[w] = job[w]
  BY <1>1
<1>2. CASE Starts(w) \/ Ends(w)
  <2>1. /\ <<"find">> \notin Inviting /\ <<"client">> \notin Inviting
        /\ <<"linked">> \notin Inviting /\ <<"activate">> \notin Inviting
        /\ <<"use">> \notin Inviting /\ <<"renew">> \notin Inviting /\ <<>> \notin Inviting
    BY DEF Inviting, Relinking, Reissuing
  <2>2. \A t, co, to, u, k : Serves(w, t, co, to, u, k) => t \in Inviting
    BY DEF Serves
  <2> QED BY <1>2, <2>1, <2>2 DEF Starts, Ends
<1>3. CASE Looks(w)
  <2>1. /\ <<"unlink", "drop", "delete">> \notin Inviting /\ <<"insert", "mail">> \notin Inviting
        /\ <<"byemail">> \notin Inviting /\ <<"find">> \notin Inviting
        /\ <<"adopt">> \notin Inviting
    BY DEF Inviting, Relinking, Reissuing
  <2>2. \A t, u, k : Goes(w, t, u, k) => job'[w].user = u /\ t \in Inviting
    BY DEF Goes, Serves
  <2> QED BY <1>3, <2>1, <2>2 DEF Looks
<1>4. CASE Passes(w)
  <2>1. /\ <<"mail">> \notin Inviting /\ <<"session">> \notin Inviting
        /\ <<"drop", "delete">> \notin Inviting /\ <<"delete">> \notin Inviting
        /\ <<"adopt", "reissue", "mail">> \in Inviting
    BY DEF Inviting, Relinking, Reissuing
  <2>2. \A t, u, k : Goes(w, t, u, k) => job'[w].user = u /\ t \in Inviting
    BY DEF Goes, Serves
  <2> QED BY <1>4, <2>1, <2>2 DEF Passes
<1> QED BY <1>1, <1>2, <1>3, <1>4, JobStays DEF Turns

LEMMA SpentInv ==
  ASSUME IInv, [Next]_vars
  PROVE  Spent'
<1> USE DEF IInv
<1>0. past.raced \subseteq past'.raced /\ made + 1 \notin DOMAIN row /\ made \in Nat
  BY PastGrows DEF PastGoes, Numbered, Typed, TypeOK
<1>1. ASSUME NEW u \in DOMAIN row', row'[u].activated, row'[u].invite # 0
      PROVE  row'[u].pw = "reset" \/ u \in past'.raced
  <2>1. CASE u \in DOMAIN row
    <3>1. CASE SameAccess(u)
      BY <1>0, <1>1, <2>1, <3>1 DEF SameAccess, Spent, InviteSpent
    <3>2. ASSUME NEW w \in Worker, NewLink(w, u)
          PROVE  u \in past'.raced
      <4>1. job[w].todo \in Inviting /\ job[w].user = u /\ row[u].activated
        BY <1>1, <3>2 DEF NewLink
      <4> QED BY <1>0, <2>1, <4>1 DEF Spent
    <3> QED BY <1>1, <2>1, <3>1, <3>2, Access DEF NewPassword, DefaultPassword
  <2>2. CASE u \notin DOMAIN row
    BY <1>1, <2>2, Rows, ZenonT(40) DEF Written, Leaves, Removes, Relinks, Links, Renews, Enters, Resets,
       Inserts, Registers, Writes, Adds
  <2> QED BY <2>1, <2>2
<1>2. ASSUME NEW w \in Worker, job'[w].todo \in Inviting, job'[w].user \in DOMAIN row',
             row'[job'[w].user].activated
      PROVE  job'[w].user \in past'.raced
  <2>1. PICK u \in DOMAIN row' : u = job'[w].user
    BY <1>2
  <2>2. job[w].todo \in Inviting /\ job[w].user = u
    BY <1>2, <2>1, InvitingFrom
  <2>3. u # made + 1
    BY <1>0, <2>2, JobTyped DEF Fields
  <2>4. u \in DOMAIN row
    BY <2>3, Emails
  <2>5. CASE row[u].activated
    BY <1>0, <2>1, <2>2, <2>4, <2>5 DEF Spent
  <2>6. CASE ~row[u].activated
    <3>1. \A v \in Worker : ~NewLink(v, u)
      BY <1>2, <2>1, <2>6 DEF NewLink
    <3>2. ~SameAccess(u)
      BY <1>2, <2>1, <2>6 DEF SameAccess
    <3>3. \A v \in Worker : job[v].todo \in Entering => v # w
      BY <2>2 DEF Inviting, Entering, Relinking, Reissuing
    <3> QED BY <2>1, <2>2, <2>4, <3>1, <3>2, <3>3, Access DEF NewPassword, DefaultPassword, Noted
  <2> QED BY <2>5, <2>6
<1> QED BY <1>1, <1>2 DEF Spent, InviteSpent

LEMMA NewestInv ==
  ASSUME IInv, [Next]_vars
  PROVE  Newest'
<1> USE DEF IInv
<1>0. /\ past.raced \subseteq past'.raced /\ made \in Nat /\ DOMAIN row \subseteq 1..made
      /\ issued \in Nat
      /\ \A w \in Worker : /\ job[w].tok \in Nat /\ job[w].tok <= issued
                           /\ job[w].user \in Nat /\ job[w].user <= made
      /\ \A u \in DOMAIN row : row[u].invite <= issued /\ row[u].invite \in Nat
      /\ \A m \in mail : m.user <= made /\ m.tok \in Nat /\ m.user \in Nat
  BY PastGrows, JobTyped DEF PastGoes, Fields, Numbered, Typed, TypeOK, Account, Token, User
<1>1. SUFFICES ASSUME NEW u \in DOMAIN row', u \notin past'.raced, ~row'[u].activated
               PROVE  /\ \A m \in mail' : m.user = u => m.tok <= row'[u].invite
                      /\ \A w \in Worker : job'[w].user = u =>
                           /\ job'[w].todo \in Mailing => job'[w].tok <= row'[u].invite
                           /\ job'[w].todo \in Relinking => row'[u].invite <= job'[w].tok
  BY DEF Newest
<1>2. CASE u \notin DOMAIN row
  <2>1. PICK w \in Worker : Inserts(w)
    BY <1>1, <1>2, Rows DEF Written, Leaves, Removes, Relinks, Links, Renews, Enters, Resets,
       Registers, Writes, Adds
  <2>2. u = made + 1 /\ row'[u].invite = job[w].tok /\ mail' = mail
    BY <1>2, <2>1 DEF Inserts, Adds
  <2>3. /\ job'[w].tok = job[w].tok /\ job'[w].todo \notin Relinking
        /\ \A v \in Worker : v # w => job'[v] = job[v]
    BY <2>1 DEF Inserts, Goes, Serves, Relinking
  <2>4. \A v \in Worker : v # w => job'[v].user # u
    BY <1>0, <2>2, <2>3
  <2>5. \A m \in mail' : m.user # u
    BY <1>0, <2>2
  <2>6. job'[w].tok <= row'[u].invite
    BY <1>0, <2>2, <2>3
  <2> QED BY <2>3, <2>4, <2>5, <2>6
<1>3. CASE u \in DOMAIN row
  <2>1. u \notin past.raced /\ row[u].invite \in Nat /\ row[u].invite <= issued
    BY <1>0, <1>1, <1>3
  <2>2. /\ SameAccess(u) \/ \E w \in Worker : NewLink(w, u)
        /\ ~row[u].activated
    BY <1>1, <1>3, Access DEF NewPassword, DefaultPassword, SameAccess, NewLink
  <2>3. /\ \A m \in mail : m.user = u => m.tok <= row[u].invite
        /\ \A w \in Worker : job[w].user = u =>
             /\ job[w].todo \in Mailing => job[w].tok <= row[u].invite
             /\ job[w].todo \in Relinking => row[u].invite <= job[w].tok
    BY <1>3, <2>1, <2>2 DEF Newest
  <2>4. row'[u].invite \in Nat /\ row[u].invite <= row'[u].invite
    <3>1. CASE SameAccess(u)
      BY <2>1, <3>1 DEF SameAccess
    <3>2. ASSUME NEW w \in Worker, NewLink(w, u)
          PROVE  row'[u].invite \in Nat /\ row[u].invite <= row'[u].invite
      BY <1>0, <2>1, <2>3, <3>2 DEF NewLink
    <3> QED BY <2>2, <3>1, <3>2
  <2>5. ASSUME NEW m \in mail', m.user = u
        PROVE  m.tok <= row'[u].invite
    <3>1. m.tok \in Nat /\ m.tok <= row[u].invite
      <4>1. CASE m \in mail
        BY <1>0, <2>3, <2>5, <4>1
      <4>2. CASE m \notin mail
        <5>1. PICK w \in Worker :
                /\ job[w].todo \in Mailing
                /\ m = [tok |-> job[w].tok, user |-> job[w].user, co |-> job[w].co]
          BY <4>2, Mails
        <5>2. m.tok = job[w].tok /\ job[w].user = u
          BY <2>5, <5>1
        <5> QED BY <1>0, <2>3, <5>1, <5>2
      <4> QED BY <4>1, <4>2
    <3> QED BY <2>1, <2>4, <3>1
  <2>6. ASSUME NEW w \in Worker, job'[w].user = u, job'[w].todo \in Mailing
        PROVE  job'[w].tok <= row'[u].invite
    <3>1. CASE job'[w] = job[w]
      <4>1. job[w].tok <= row[u].invite /\ job[w].tok \in Nat
        BY <1>0, <2>3, <2>6, <3>1
      <4> QED BY <2>1, <2>4, <3>1, <4>1
    <3>2. CASE job'[w] # job[w]
      <4>0. /\ <<>> \notin Mailing /\ <<"find">> \notin Mailing /\ <<"client">> \notin Mailing
            /\ <<"linked">> \notin Mailing /\ <<"activate">> \notin Mailing
            /\ <<"use">> \notin Mailing /\ <<"renew">> \notin Mailing
            /\ <<"drop", "delete">> \notin Mailing /\ <<"delete">> \notin Mailing
            /\ <<"reissue", "mail">> \notin Mailing /\ <<"session">> \notin Mailing
            /\ <<"unlink", "drop", "delete">> \notin Mailing
            /\ <<"insert", "mail">> \notin Mailing /\ <<"relink", "mail">> \notin Mailing
            /\ <<"byemail">> \notin Mailing /\ <<"adopt">> \notin Mailing
            /\ <<"adopt", "reissue", "mail">> \notin Mailing
            /\ \A t \in Reissuing : t \notin Mailing
        BY DEF Mailing, Reissuing
      <4>1. \A t, co, to, v, k : Serves(w, t, co, to, v, k) =>
              t \in Mailing /\ v = u /\ job'[w].tok = k
        BY <2>6 DEF Serves
      <4>2. ~Starts(w) /\ ~Ends(w) /\ ~Looks(w)
        BY <4>0, <4>1 DEF Starts, Ends, Looks, Goes
      <4>3. Passes(w)
        BY <3>2, <4>2, JobStays DEF Turns
      <4>4. u # made + 1
        BY <1>0, <1>3
      <4>5. job'[w].tok = row'[u].invite
        BY <4>0, <4>1, <4>3, <4>4 DEF Passes, Goes
      <4> QED BY <2>4, <4>5
    <3> QED BY <3>1, <3>2
  <2>7. ASSUME NEW w \in Worker, job'[w].user = u, job'[w].todo \in Relinking
        PROVE  row'[u].invite <= job'[w].tok
    <3>1. CASE job'[w] = job[w]
      <4>1. SameAccess(u)
        <5>1. ASSUME NEW v \in Worker, NewLink(v, u)
              PROVE  FALSE
          <6>1. v # w
            BY <2>7, <5>1 DEF NewLink, Mailing, Relinking
          <6> QED BY <1>1, <2>7, <3>1, <5>1, <6>1 DEF NewLink, Noted
        <5> QED BY <2>2, <5>1
      <4> QED BY <2>3, <2>7, <3>1, <4>1 DEF SameAccess
    <3>2. CASE job'[w] # job[w]
      <4>1. job'[w].tok = issued + 1 /\ row' = row
        BY <2>7, <3>2, Draws
      <4> QED BY <1>0, <2>1, <4>1
    <3> QED BY <3>1, <3>2
  <2> QED BY <2>5, <2>6, <2>7
<1> QED BY <1>2, <1>3

\* An account whose email is a contact of a company goes only with a company of that contact.
LEMMA PresentStays ==
  ASSUME IInv, [Next]_vars, NEW c \in Company, Kept(c), Present(c)
  PROVE  Present(c)'
<1> USE DEF IInv
<1>1. PICK u \in DOMAIN row : row[u].email \in past.contacts[c]
  BY DEF Present
<1>2. row[u].email \in past'.contacts[c]
  BY <1>1, PastGrows DEF PastGoes
<1>3. CASE u \in DOMAIN row'
  BY <1>2, <1>3, Emails DEF Present
<1>4. CASE u \notin DOMAIN row'
  <2>1. PICK w \in Worker : Removes(w) /\ job[w].user = u
    BY <1>4, Rows DEF Written, Leaves, Removes, Relinks, Links, Renews, Enters, Resets,
       Inserts, Registers, Writes, Adds
  <2>2. job[w].todo \in Deleting /\ job[w].todo \in Linking
    BY <2>1 DEF Removes, Deleting, Linking
  <2>3. job[w].co \in Company /\ company[job[w].co] = "gone"
    BY <2>2 DEF Fields, OfCompany
  <2>4. row[u].email \in past.contacts[job[w].co]
    BY <2>1, <2>2 DEF Linked
  <2> QED BY <1>1, <2>3, <2>4 DEF Kept
<1> QED BY <1>3, <1>4

\* A request that is about to make a client's account makes it, or finds why it cannot.
LEMMA Inserted ==
  ASSUME IInv, [Next]_vars, NEW w \in Worker, job[w].todo \in Inserting, job'[w] # job[w]
  PROVE  insertClient(w)
<1> USE DEF IInv
<1>1. Step(w) \/ job[w] = Idle
  BY JobStays
<1>2. job[w].todo = <<"insert", "mail">>
  BY DEF Inserting
<1>3. job[w] # Idle
  <2>1. Idle.todo = <<>> /\ job[w].todo # <<>>
    BY <1>2 DEF Idle
  <2> QED BY <2>1
<1>4. /\ ~At(w, "linked") /\ ~At(w, "unlink") /\ ~At(w, "drop") /\ ~At(w, "delete")
      /\ ~At(w, "find") /\ ~At(w, "relink") /\ ~At(w, "mail") /\ ~At(w, "client")
      /\ ~At(w, "byemail") /\ ~At(w, "adopt") /\ ~At(w, "reissue") /\ ~At(w, "activate")
      /\ ~At(w, "use") /\ ~At(w, "session") /\ ~At(w, "renew")
  BY <1>2, AtDoes DEF Adopting
<1> QED BY <1>1, <1>3, <1>4 DEF Step, findLinkedUsers, disconnectUsers, deleteCompany,
        deleteUsers, findContact, relinkUser, sendInvite, findClient, findByEmail, adoptUser,
        reissueInvite, activateAccount, useAuthToken, login, renewPassword

\* Who looks a client up, and who takes or uses a sign-in link.
SameSignIns == past'.signins = past.signins /\ past'.overlapped = past.overlapped

LEMMA PastSteps ==
  ASSUME IInv, [Next]_vars
  PROVE  /\ \/ past'.invited = past.invited
            \/ \E w \in Worker : /\ findContact(w)
                                 /\ past'.invited = past.invited \cup {job[w].co}
         /\ SameSignIns \/ \E w \in Worker : login(w) \/ \E t \in Token : verifyLogin(w, t)
<1> USE DEF IInv
<1>0. past \in Past /\ DOMAIN row \subseteq User
  BY DEF Typed, TypeOK
<1> DEFINE Same == past'.invited = past.invited /\ SameSignIns
<1>1. ASSUME NEW w \in Worker, findContact(w)
      PROVE  past'.invited = past.invited \cup {job[w].co} /\ SameSignIns
  BY <1>0, <1>1 DEF findContact, Past, SameSignIns
<1>2. ASSUME NEW w \in Worker, NEW t \in Token, verifyLogin(w, t)
      PROVE  past'.invited = past.invited
  BY <1>0, <1>2 DEF verifyLogin, Past
<1>3. ASSUME NEW w \in Worker, login(w)
      PROVE  past'.invited = past.invited
  BY <1>0, <1>3 DEF login, Past
<1>4. ASSUME NEW w \in Worker,
             relinkUser(w) \/ adoptUser(w) \/ reissueInvite(w) \/ activateAccount(w)
               \/ renewPassword(w)
      PROVE  Same
  <2>1. \/ past' = past
        \/ job[w].user \in DOMAIN row /\ Touch(w, job[w].user)
    BY <1>4 DEF relinkUser, adoptUser, reissueInvite, activateAccount, renewPassword
  <2> QED BY <1>0, <2>1, Touches DEF SameSignIns
<1>5. ASSUME NEW d \in Company, NEW e \in Email, updateMyCompany(d, e)
      PROVE  Same
  BY <1>0, <1>5 DEF updateMyCompany, Past, SameSignIns
<1>6. ASSUME NEW u \in User, resendAggregatorInvite(u)
      PROVE  Same
  BY <1>0, <1>6 DEF resendAggregatorInvite, Past, SameSignIns
<1>7. CASE past' = past
  BY <1>7 DEF SameSignIns
<1>8. \/ past' = past
      \/ \E w \in Worker :
           \/ findContact(w) \/ login(w) \/ relinkUser(w) \/ adoptUser(w) \/ reissueInvite(w)
           \/ activateAccount(w) \/ renewPassword(w) \/ \E t \in Token : verifyLogin(w, t)
      \/ \E d \in Company, e \in Email : updateMyCompany(d, e)
      \/ \E u \in User : resendAggregatorInvite(u)
  BY DEF Next, Step, Auth, ClientProfiles, AtOnce, Companies, vars,
     create, createCompany, remove, findLinkedUsers, disconnectUsers,
     deleteCompany, deleteUsers, insertClient, sendInvite, resendInvite,
     sendInviteAfterPaymentIfNeeded, findClient, findByEmail,
     setPassword, requestLogin, useAuthToken,
     forgotPassword, resetPassword, InsertOwn, register, createAggregator
<1> HIDE DEF SameSignIns
<1> QED BY <1>1, <1>2, <1>3, <1>4, <1>5, <1>6, <1>7, <1>8

LEMMA InvitedInv ==
  ASSUME IInv, [Next]_vars
  PROVE  Invited'
<1> USE DEF IInv
<1>0. PastGoes /\ CompanyGoes
  BY PastGrows, CompanyGrows
<1>1. SUFFICES ASSUME NEW c \in past'.invited, Kept(c)'
               PROVE  \/ Present(c)'
                      \/ \E w \in Worker : job'[w].todo \in Inserting /\ job'[w].co = c
  BY DEF Invited
<1>2. c \in Company
  BY <1>0 DEF PastGoes, Past
<1>3. Kept(c)
  <2>1. ASSUME NEW d \in Company, past.contacts[d] \cap past.contacts[c] # {}
        PROVE  company[d] # "gone"
    <3>1. past'.contacts[d] \cap past'.contacts[c] # {}
      BY <1>0, <1>2, <2>1 DEF PastGoes
    <3>2. company'[d] # "gone"
      BY <1>1, <3>1 DEF Kept
    <3> QED BY <1>0, <3>2 DEF CompanyGoes
  <2> QED BY <2>1 DEF Kept
<1>4. CASE c \notin past.invited
  <2>1. PICK w \in Worker : findContact(w) /\ c = job[w].co
    BY <1>4, PastSteps
  <2>2. job[w].to \in past.contacts[c]
    BY <2>1, AtDoes DEF findContact, Looking, Fields
  <2>3. CASE \E u \in DOMAIN row : row[u].email = job[w].to
    <3>1. Present(c)
      BY <2>2, <2>3 DEF Present
    <3> QED BY <1>2, <1>3, <3>1, PresentStays
  <2>4. CASE Goes(w, <<"insert", "mail">>, job[w].user, issued + 1)
    BY <2>1, <2>4 DEF Goes, Serves, Inserting
  <2> QED BY <2>1, <2>3, <2>4, LookupDoes
<1>5. CASE c \in past.invited
  <2>1. CASE Present(c)
    BY <1>2, <1>3, <2>1, PresentStays
  <2>2. ASSUME NEW w \in Worker, job[w].todo \in Inserting, job[w].co = c, job'[w] # job[w]
        PROVE  Present(c)'
    <3>1. insertClient(w)
      BY <2>2, Inserted
    <3>2. job[w].to \in past.contacts[c] /\ company[c] # "none"
      BY <2>2 DEF Fields, OfCompany
    <3>3. company[c] # "gone"
      BY <1>2, <1>3 DEF Kept, Linked
    <3>4. CASE \E u \in DOMAIN row : row[u].email = job[w].to
      <4>1. Present(c)
        BY <3>2, <3>4 DEF Present
      <4> QED BY <1>2, <1>3, <4>1, PresentStays
    <3>5. CASE row' = [u \in DOMAIN row \cup {made + 1} |->
                         IF u = made + 1
                           THEN [email |-> job[w].to, role |-> "CLIENT",
                                 co |-> job[w].co, pw |-> "none",
                                 invite |-> job[w].tok, reset |-> FALSE,
                                 activated |-> FALSE]
                           ELSE row[u]]
      <4>1. made + 1 \in DOMAIN row' /\ row'[made + 1].email = job[w].to
        BY <3>5
      <4>2. job[w].to \in past'.contacts[c]
        BY <1>0, <1>2, <3>2 DEF PastGoes
      <4> QED BY <4>1, <4>2 DEF Present
    <3>6. company[job[w].co] = "here"
      BY <1>2, <2>2, <3>2, <3>3 DEF Typed, TypeOK
    <3> QED BY <3>1, <3>4, <3>5, <3>6, WriteDoes
  <2>3. \/ Present(c)
        \/ \E w \in Worker : job[w].todo \in Inserting /\ job[w].co = c
    BY <1>3, <1>5 DEF Invited
  <2> QED BY <2>1, <2>2, <2>3
<1> QED BY <1>4, <1>5

SigningInOf(t) == {w \in Worker : job[w].tok = t /\ job[w].todo \in SigningIn}

LEMMA VerifyingIs ==
  /\ Typed => \A t : Verifying(t) = SigningInOf(t)
  /\ Typed' => \A t \in Token : Verifying(t)' = SigningInOf(t)'
<1>1. ASSUME NEW t \in Todos
      PROVE  (t # <<>> /\ Head(t) = "use") \/ (t # <<>> /\ Head(t) = "session")
               <=> t \in SigningIn
  <2>1. ASSUME t \in SigningIn
        PROVE  t # <<>> /\ (Head(t) = "use" \/ Head(t) = "session")
    BY <2>1 DEF SigningIn
  <2> QED BY <2>1, Heads DEF SigningIn
<1>2. Typed => \A w \in Worker : job[w].todo \in Todos
  BY DEF Typed, Job
<1>3. Typed' => \A w \in Worker : job'[w].todo \in Todos
  BY DEF Typed, Job
<1>4. Typed => \A t : Verifying(t) = SigningInOf(t)
  BY <1>1, <1>2 DEF Verifying, SigningInOf, At
<1>5. Typed' => \A t \in Token : Verifying(t)' = SigningInOf(t)'
  BY <1>1, <1>3 DEF Verifying, SigningInOf, At
<1> QED BY <1>4, <1>5

\* No link is usable that was not, but for the one that is made.
LEMMA Usables ==
  ASSUME IInv, [Next]_vars, NEW t, Usable(t)'
  PROVE  Usable(t) \/ (t = issued + 1 /\ MagicMade)
<1> USE DEF IInv
<1>1. CASE MagicMade
  <2>1. PICK u \in DOMAIN row :
          magic' = [k \in DOMAIN magic \cup {issued + 1} |->
                      IF k = issued + 1 THEN [user |-> u, used |-> FALSE] ELSE magic[k]]
    BY <1>1 DEF MagicMade
  <2>2. t # issued + 1 => Usable(t)
    BY <2>1 DEF Usable
  <2> QED BY <1>1, <2>2
<1>2. CASE MagicLeft
  BY <1>2 DEF MagicLeft, Usable
<1>3. ASSUME NEW w \in Worker, MagicUsed(w)
      PROVE  Usable(t)
  <2> DEFINE k == job[w].tok
             r == [magic[k] EXCEPT !.used = TRUE]
  <2>1. k \in DOMAIN magic /\ magic' = [magic EXCEPT ![k] = r]
    BY <1>3 DEF MagicUsed
  <2>2. r.used = TRUE
    BY <2>1 DEF Numbered
  <2> HIDE DEF r
  <2> QED BY <2>1, <2>2 DEF Usable
<1> QED BY <1>1, <1>2, <1>3, Magics

\* Unless a link is looked up or a session given, the requests at work on one only go on.
LEMMA SignInsStay ==
  ASSUME IInv, [Next]_vars, NEW w \in Worker, job'[w].todo \in SigningIn,
         ~\E v \in Worker, t \in Token : verifyLogin(v, t)
  PROVE  /\ job[w].todo \in SigningIn /\ job'[w].tok = job[w].tok
         /\ job'[w].todo = <<"session">> =>
              job[w].todo = <<"session">> \/ \A t \in Token : job'[w].tok = t => ~Usable(t)'
<1> USE DEF IInv
<1>0. /\ <<>> \notin SigningIn /\ <<"find">> \notin SigningIn /\ <<"client">> \notin SigningIn
      /\ <<"linked">> \notin SigningIn /\ <<"activate">> \notin SigningIn
      /\ <<"renew">> \notin SigningIn /\ <<"mail">> \notin SigningIn
      /\ <<"drop", "delete">> \notin SigningIn /\ <<"delete">> \notin SigningIn
      /\ <<"reissue", "mail">> \notin SigningIn
      /\ <<"unlink", "drop", "delete">> \notin SigningIn
      /\ <<"insert", "mail">> \notin SigningIn /\ <<"relink", "mail">> \notin SigningIn
      /\ <<"byemail">> \notin SigningIn /\ <<"adopt">> \notin SigningIn
      /\ <<"adopt", "reissue", "mail">> \notin SigningIn
      /\ \A t \in Reissuing : t \notin SigningIn
  BY DEF SigningIn, Reissuing
<1>1. CASE job'[w] = job[w]
  BY <1>1
<1>2. CASE job'[w] # job[w]
  <2>1. \A t, co, to, u, k : Serves(w, t, co, to, u, k) => t \in SigningIn /\ job'[w].tok = k
    BY DEF Serves
  <2>2. ~Starts(w) /\ ~Ends(w) /\ ~Looks(w)
    BY <1>0, <2>1 DEF Starts, Ends, Looks, Goes
  <2>3. Passes(w)
    BY <1>2, <2>2, JobStays DEF Turns
  <2>4. /\ job[w].todo = <<"use">> /\ useAuthToken(w) /\ job'[w].tok = job[w].tok
        /\ Goes(w, <<"session">>, job[w].user, job[w].tok)
    BY <1>0, <2>1, <2>3 DEF Passes, Goes
  <2>5. job[w].tok \in DOMAIN magic
    BY <2>2, <2>4, StepDoes
  <2>6. magic' = [magic EXCEPT ![job[w].tok].used = TRUE]
    BY <2>4, <2>5 DEF useAuthToken
  <2> DEFINE k == job[w].tok
             r == [magic[k] EXCEPT !.used = TRUE]
  <2>7. magic' = [magic EXCEPT ![k] = r] /\ r.used = TRUE
    BY <2>5, <2>6 DEF Numbered
  <2> HIDE DEF r
  <2>8. k \notin DOMAIN magic' \/ magic'[k].used
    BY <2>5, <2>7
  <2>9. \A t \in Token : job'[w].tok = t => ~Usable(t)'
    BY <2>4, <2>8 DEF Usable
  <2> QED BY <2>4, <2>9 DEF SigningIn
<1> QED BY <1>1, <1>2

LEMMA SignInsInv ==
  ASSUME IInv, [Next]_vars
  PROVE  SignIns'
<1> USE DEF IInv
<1>0. /\ past \in Past /\ past.signins \in [Token -> 0..2] /\ issued \in Nat
      /\ issued' \in {issued, issued + 1} /\ past.overlapped \subseteq past'.overlapped
      /\ past' \in Past /\ past'.signins \in [Token -> 0..2]
      /\ \A w \in Worker : job[w].tok \in Nat /\ job[w].tok <= issued
  BY Counts, PastGrows, JobTyped DEF PastGoes, Fields, Typed, TypeOK, Past
<1>1. /\ \A t : Verifying(t) = SigningInOf(t)
      /\ \A t \in Token : Verifying(t)' = SigningInOf(t)'
  <2>1. Typed'
    BY TypedInv
  <2> QED BY <2>1, VerifyingIs
<1>2. SUFFICES ASSUME NEW t \in Token
               PROVE  /\ t > issued' => past'.signins[t] = 0
                      /\ t \notin past'.overlapped =>
                           /\ \A v, w \in SigningInOf(t)' : v = w
                           /\ past'.signins[t] <= 1
                           /\ past'.signins[t] = 1 => SigningInOf(t)' = {} /\ ~Usable(t)'
                           /\ \A w \in Worker :
                                job'[w].todo = <<"session">> /\ job'[w].tok = t => ~Usable(t)'
  BY <1>1 DEF SignIns
<1>3. /\ t \in Nat
      /\ t > issued => past.signins[t] = 0 /\ SigningInOf(t) = {}
      /\ t \notin past'.overlapped =>
           /\ \A v, w \in SigningInOf(t) : v = w
           /\ past.signins[t] <= 1
           /\ past.signins[t] = 1 => SigningInOf(t) = {} /\ ~Usable(t)
           /\ \A w \in Worker : job[w].todo = <<"session">> /\ job[w].tok = t => ~Usable(t)
  <2>1. t \in Nat
    BY AccountsAssumption DEF Token
  <2>2. t > issued => SigningInOf(t) = {}
    BY <1>0, <2>1 DEF SigningInOf
  <2> QED BY <1>0, <1>1, <2>1, <2>2 DEF SignIns
<1>4. CASE \E w \in Worker, k \in Token : verifyLogin(w, k)
  <2>1. PICK w \in Worker, k \in Token : verifyLogin(w, k)
    BY <1>4
  <2>2. /\ issued' = issued /\ magic' = magic /\ Usable(k)
        /\ past' = [past EXCEPT !.overlapped = IF Verifying(k) = {} THEN @ ELSE @ \cup {k}]
    BY <2>1 DEF verifyLogin
  <2>3. Serves(w, <<"use">>, "none", "none", magic[k].user, k)
    BY <2>1, BeginsDoes
  <2>4. /\ past'.signins = past.signins
        /\ Verifying(k) # {} => k \in past'.overlapped
    BY <1>0, <2>2 DEF Past
  <2>5. SigningInOf(t)' \subseteq SigningInOf(t) \cup (IF t = k THEN {w} ELSE {})
    BY <2>3 DEF SigningInOf, Serves
  <2>6. Usable(t)' => Usable(t)
    BY <2>2 DEF Usable
  <2>7. \A v \in Worker : job'[v].todo = <<"session">> => job[v] = job'[v]
    BY <2>3 DEF Serves
  <2>8. t = k /\ t \notin past'.overlapped => SigningInOf(t) = {} /\ past.signins[t] # 1
    BY <1>1, <1>3, <2>2, <2>4
  <2>9. CASE t = k /\ t \notin past'.overlapped
    <3>1. past'.signins[t] = 0
      BY <1>0, <1>3, <2>4, <2>8, <2>9
    <3>2. \A v, x \in SigningInOf(t)' : v = x
      BY <2>5, <2>8, <2>9
    <3>3. \A v \in Worker : ~(job'[v].todo = <<"session">> /\ job'[v].tok = t)
      <4>1. SUFFICES ASSUME NEW v \in Worker, job'[v].todo = <<"session">>, job'[v].tok = t
                     PROVE  FALSE
        OBVIOUS
      <4>2. job[v].todo = <<"session">> /\ job[v].tok = t
        BY <2>7, <4>1
      <4>3. v \in SigningInOf(t)
        BY <4>2 DEF SigningInOf, SigningIn
      <4> QED BY <2>8, <2>9, <4>3
    <3> QED BY <3>1, <3>2, <3>3
  <2>10. CASE ~(t = k /\ t \notin past'.overlapped)
    <3>1. t \notin past'.overlapped => SigningInOf(t)' \subseteq SigningInOf(t)
      BY <2>5, <2>10
    <3>2. t > issued' => past'.signins[t] = 0
      BY <1>3, <2>2, <2>4
    <3>3. t \notin past'.overlapped =>
            \A v \in Worker : job'[v].todo = <<"session">> /\ job'[v].tok = t => ~Usable(t)'
      BY <1>3, <2>6, <2>7
    <3> QED BY <1>3, <2>4, <2>6, <3>1, <3>2, <3>3
  <2> QED BY <2>9, <2>10
<1>5. CASE ~(\E w \in Worker, k \in Token : verifyLogin(w, k))
  <2>1. SigningInOf(t)' \subseteq SigningInOf(t)
    BY <1>5, SignInsStay DEF SigningInOf
  <2>2. CASE \E w \in Worker : login(w)
    <3>1. PICK w \in Worker : login(w)
      BY <2>2
    <3>2. job[w].todo = <<"session">> /\ Ends(w) /\ magic' = magic /\ issued' = issued
      BY <3>1, AtDoes, StepDoes DEF login
    <3> DEFINE k == job[w].tok
               n == IF job[w].user \in DOMAIN row /\ past.signins[k] < 2
                      THEN past.signins[k] + 1 ELSE past.signins[k]
    <3>3. past' = [past EXCEPT !.signins = [past.signins EXCEPT ![k] = n]]
      BY <3>1 DEF login
    <3>4. k \in Token
      <4>1. k # 0 /\ k \in 0..MaxToken
        BY <3>2, JobTyped DEF Fields, SigningIn
      <4> QED BY <4>1, AccountsAssumption DEF Token
    <3>5. n \in {past.signins[k], past.signins[k] + 1}
      OBVIOUS
    <3> HIDE DEF n
    <3>6. /\ past'.signins = [past.signins EXCEPT ![k] = n]
          /\ past'.overlapped = past.overlapped
      BY <1>0, <3>3 DEF Past
    <3>7. w \in SigningInOf(k) /\ w \notin SigningInOf(t)'
      <4>1. w \in SigningInOf(k)
        BY <3>2 DEF SigningInOf, SigningIn
      <4>2. job'[w].todo = <<>>
        BY <3>2 DEF Ends, Serves
      <4>3. job'[w].todo \notin SigningIn
        BY <4>2 DEF SigningIn
      <4> QED BY <4>1, <4>3 DEF SigningInOf
    <3>8. Usable(t)' => Usable(t)
      BY <3>2 DEF Usable
    <3>9. \A v \in Worker : job'[v].todo = <<"session">> => job[v] = job'[v]
      BY <3>2 DEF Ends, Serves
    <3>10. CASE t = k
      <4>1. ~(t > issued') /\ past'.signins[t] = n
        BY <1>0, <3>2, <3>4, <3>6, <3>10
      <4>2. CASE t \notin past'.overlapped
        <5>1. past.signins[t] = 0
          BY <1>0, <1>3, <3>7, <3>10, <4>2
        <5>2. past'.signins[t] <= 1
          BY <3>5, <3>10, <4>1, <5>1
        <5>3. SigningInOf(t)' = {}
          BY <1>3, <2>1, <3>7, <3>10, <4>2
        <5>4. ~Usable(t)'
          BY <1>3, <3>2, <3>8, <3>10, <4>2
        <5> QED BY <4>1, <5>2, <5>3, <5>4
      <4> QED BY <4>1, <4>2
    <3>11. CASE t # k
      <4>1. past'.signins[t] = past.signins[t]
        BY <1>0, <3>4, <3>6, <3>11
      <4>2. t \notin past'.overlapped =>
              \A v \in Worker : job'[v].todo = <<"session">> /\ job'[v].tok = t => ~Usable(t)'
        BY <1>3, <3>8, <3>9
      <4> QED BY <1>3, <2>1, <3>2, <3>8, <4>1, <4>2
    <3> QED BY <3>10, <3>11
  <2>3. CASE ~\E w \in Worker : login(w)
    <3>1. past'.signins = past.signins
      BY <1>5, <2>3, PastSteps DEF SameSignIns
    <3>2. CASE Usable(t)' => Usable(t)
      <4>1. t \notin past'.overlapped =>
              \A w \in Worker : job'[w].todo = <<"session">> /\ job'[w].tok = t => ~Usable(t)'
        <5>1. SUFFICES ASSUME t \notin past'.overlapped, NEW w \in Worker,
                              job'[w].todo = <<"session">>, job'[w].tok = t
                       PROVE  ~Usable(t)'
          OBVIOUS
        <5>2. job'[w].todo \in SigningIn
          BY <5>1 DEF SigningIn
        <5>3. \/ job[w].todo = <<"session">> /\ job[w].tok = t
              \/ ~Usable(t)'
          BY <1>5, <5>1, <5>2, SignInsStay
        <5> QED BY <1>3, <3>2, <5>1, <5>3
      <4>2. t > issued' => t > issued
        BY <1>0, <1>3
      <4> QED BY <1>3, <2>1, <3>1, <3>2, <4>1, <4>2
    <3>3. CASE t = issued + 1 /\ MagicMade
      <4>1. past.signins[t] = 0 /\ SigningInOf(t) = {} /\ job' = job
        BY <1>0, <1>3, <3>3 DEF MagicMade
      <4>2. \A w \in Worker : job'[w].tok # t
        BY <1>0, <3>3, <4>1
      <4> QED BY <2>1, <3>1, <4>1, <4>2
    <3> QED BY <3>2, <3>3, Usables
  <2> QED BY <2>2, <2>3
<1> QED BY <1>4, <1>5

-----------------------------------------------------------------------------
(* The theorems.                                                           *)

\* The invariant holds at the start and is preserved by every step of every request,
\* whatever the others do between its awaits: what a request of client-profiles, auth or
\* aggregator-users still has to do fits the accounts and links as they are by then.
THEOREM Inductive == Spec => []IInv
<1>1. Init => IInv
  <2> SUFFICES ASSUME Init
               PROVE  IInv
    OBVIOUS
  <2>1. DOMAIN row = {} /\ DOMAIN magic = {}
    BY DEF Init
  <2>2. \A w \in Worker : /\ job[w] = Idle /\ job[w].todo = <<>> /\ job[w].co = "none"
                          /\ job[w].user = 0 /\ job[w].tok = 0
    BY DEF Init, Idle
  <2>3. /\ <<>> \notin OfCompany /\ <<>> \notin Looking \cup Inserting
        /\ <<>> \notin Inserting \cup Relinking \cup Mailing \cup SigningIn
        /\ <<>> \notin Relinking \cup Adopting \cup Reissuing \cup Mailing
        /\ <<>> \notin Deleting /\ <<>> \notin Linking /\ <<>> \notin Inviting
        /\ <<>> \notin SigningIn
    BY DEF OfCompany, Looking, Inserting, Relinking, Adopting, Reissuing, Mailing, Dropping,
       Deleting, Linking, Inviting, SigningIn
  <2>4. Idle \in Job
    BY AccountsAssumption DEF Idle, Job, Todos
  <2>5. past \in Past
    BY AccountsAssumption DEF Init, Past
  <2>6. /\ past.contacts = [c \in Company |-> {FirstContact[c]}] /\ past.invited = {}
        /\ past.signins = [t \in Token |-> 0]
    BY DEF Init
  <2>7. Typed
    BY <2>1, <2>4, <2>5, AccountsAssumption DEF Init, Typed, TypeOK
  <2>8. Fields
    BY <2>2, <2>3 DEF Init, Fields
  <2>9. Numbered /\ Fresh /\ Enterable
    BY <2>1, <2>2, <2>3 DEF Init, Numbered, Fresh, Enterable
  <2>10. Linked
    BY <2>1, <2>2, <2>3, <2>6 DEF Init, Linked
  <2>11. SignIns
    <3>1. \A t : Verifying(t) = {}
      BY <2>2 DEF Verifying, At
    <3> QED BY <2>2, <2>6, <3>1 DEF SignIns
  <2>12. Spent /\ Newest /\ Invited
    BY <2>1, <2>2, <2>3, <2>6 DEF Spent, InviteSpent, Newest, Invited
  <2> QED BY <2>7, <2>8, <2>9, <2>10, <2>11, <2>12 DEF IInv
<1>2. IInv /\ [Next]_vars => IInv'
  BY TypedInv, FieldsInv, NumberedInv, FreshInv, EnterableInv, LinkedInv, SignInsInv, SpentInv,
     NewestInv, InvitedInv DEF IInv
<1> QED BY <1>1, <1>2, PTL DEF Spec

\* Every variable keeps its type; emails and invites stay unique, and an activated account
\* has a password.
THEOREM Typing == Spec => []TypeOK
<1>1. IInv => TypeOK
  BY DEF IInv, Typed
<1> QED BY <1>1, Inductive, PTL

\* verifyLogin gives one session for a sign-in link, unless two requests had the link at once.
THEOREM Link_used_once == Spec => []LinkUsedOnce
<1>1. IInv => LinkUsedOnce
  BY DEF IInv, SignIns, LinkUsedOnce
<1> QED BY <1>1, Inductive, PTL

\* Where a mailbox has invites, one of them is the newest.
LEMMA MailHasNewest ==
  ASSUME NEW T \in SUBSET Token, T # {}
  PROVE  Max(T) \in T
<1> DEFINE left == {MaxToken - t : t \in T}
           R == OpToRel(<, Nat)
<1>1. /\ MaxToken \in Nat /\ left \subseteq Nat /\ left # {}
      /\ \A t \in T : t \in Nat /\ t <= MaxToken
  <2>1. MaxToken \in Nat
    BY AccountsAssumption
  <2>2. \A t \in T : t \in Nat /\ t <= MaxToken
    BY <2>1 DEF Token
  <2>3. \A t \in T : MaxToken - t \in Nat
    BY <2>1, <2>2
  <2> QED BY <2>1, <2>2, <2>3
<1>2. \A x, y \in Nat : x < y => <<x, y>> \in R
  BY DEF OpToRel
<1>3. \E i \in left : \A j \in left : i <= j
  <2> HIDE DEF left
  <2>1. IsWellFoundedOn(R, Nat)
    BY NatLessThanWellFounded
  <2> HIDE DEF R
  <2>2. PICK i \in left : \A j \in left : ~(<<j, i>> \in R)
    BY <1>1, <2>1, WFMin
  <2>3. \A j \in left : ~(j < i)
    BY <1>1, <1>2, <2>2
  <2> QED BY <1>1, <2>3
<1>4. PICK t \in T : \A s \in T : MaxToken - t <= MaxToken - s
  BY <1>3
<1>5. \A s \in T : t >= s
  BY <1>1, <1>4
<1> QED BY <1>5 DEF Max

\* An invite works until it is used and no longer: setPassword takes it away, a resend leaves
\* a newer one, and no request under way puts an older one back.
THEOREM Invite_works_once == Spec => []InviteWorksOnce
<1>1. IInv => InviteWorksOnce
  <2> SUFFICES ASSUME IInv
               PROVE  NewestInviteWorks
    BY DEF IInv, Spent, InviteWorksOnce
  <2>1. ASSUME NEW u \in DOMAIN row \ past.raced, ~row[u].activated,
               {m.tok : m \in {n \in mail : n.user = u}} # {}
        PROVE  row[u].invite >= Max({m.tok : m \in {n \in mail : n.user = u}})
    <3> DEFINE T == {m.tok : m \in {n \in mail : n.user = u}}
    <3>1. T \subseteq Token
      BY DEF IInv, Typed, TypeOK
    <3>2. \A k \in T : k <= row[u].invite
      BY <2>1 DEF IInv, Newest
    <3>3. row[u].invite \in Nat
      BY DEF IInv, Typed, TypeOK, Account
    <3> HIDE DEF T
    <3>4. Max(T) \in T
      BY <2>1, <3>1, MailHasNewest DEF T
    <3>5. PICK k \in T : k = Max(T)
      BY <3>4
    <3>6. k <= row[u].invite /\ k \in Nat
      BY <3>1, <3>2, AccountsAssumption DEF Token
    <3>7. row[u].invite >= k
      BY <3>3, <3>6
    <3>8. row[u].invite >= Max(T)
      BY <3>5, <3>7
    <3> QED BY <3>8 DEF T
  <2> QED BY <2>1 DEF NewestInviteWorks
<1> QED BY <1>1, Inductive, PTL

\* A company whose client has been looked up has an account that can be entered, unless a
\* company with the same contact has been removed.
THEOREM Company_has_account == Spec => []CompanyHasAccount
<1>1. IInv => CompanyHasAccount
  <2> SUFFICES ASSUME IInv, NEW c \in past.invited, company[c] = "here",
                      \A w \in Worker : job[w].co # c, Kept(c)
               PROVE  \E u \in DOMAIN row : /\ row[u].email \in past.contacts[c]
                                            /\ row[u].activated \/ row[u].invite # 0
    BY DEF CompanyHasAccount, Kept
  <2>1. Present(c)
    BY DEF IInv, Invited
  <2> QED BY <2>1 DEF IInv, Present, Enterable
<1> QED BY <1>1, Inductive, PTL

=============================================================================
