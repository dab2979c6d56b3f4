----------------------------- MODULE StudioAccounts -----------------------------
(***************************************************************************)
(* Accounts of one studio's people: owners sign up, the owner invites      *)
(* artists to their profiles, they accept, sign in, and reset a password.  *)
(*                                                                         *)
(* Requests run concurrently.  A transaction is one step where its locks   *)
(* come before what it reads; an invitation checks the emails under the    *)
(* lock of the studio and writes under the lock of the profile, and an     *)
(* acceptance keeps the profile from its check to its commit.  A request   *)
(* that stops is one that takes no more steps, its transaction undone.     *)
(***************************************************************************)
EXTENDS Naturals, Sequences, FiniteSets

CONSTANTS
    Emails,       \* normalised addresses
    Profiles,     \* artists of the studio
    Doors,        \* requests
    DoorKinds,    \* what they do in a scenario
    TryLimit,     \* sign-ins allowed in a window (10 in the program)
    LastPassword, \* bound on changes of a password
    LastRow       \* bound on invitations and on reset links

Owner == "owner"
DoorKindNames == {"signup", "invite", "accept", "revoke", "login", "forgot", "redeem", "none"}

ASSUME AccountBounds ==
    /\ TryLimit \in Nat /\ LastPassword \in Nat \ {0} /\ LastRow \in Nat
    /\ Emails # {} /\ Owner \notin Profiles
    /\ DoorKinds \subseteq [Doors -> DoorKindNames]

VARIABLES
    logins,     \* users: their email and the profile they work under
    slugs,      \* suffixes of the studios that signed up under one name
    invites,    \* staff_invitations in order
    password,   \* how often the password changed; 0 without an account
    links,      \* reset links in the order they were issued
    resetRow,   \* auth_password_resets: the link each account's row names, or 0
    sessions,   \* auth_sessions: the account and the password it was opened with
    tries,      \* auth_login_attempts of each email
    door        \* the requests

accountVars == <<logins, slugs, invites, password, links, resetRow, sessions, tries, door>>

Closed == [kind |-> "none", pc |-> "idle", email |-> CHOOSE e \in Emails : TRUE, profile |-> Owner, row |-> 0, typed |-> 0]

\* Every row has its type, and an account has one login and a password.
AccountsTypeOK ==
    /\ \A l \in logins : l.email \in Emails /\ l.profile \in Profiles \cup {Owner}
    /\ \A e \in Emails : /\ Cardinality({l \in logins : l.email = e}) = (IF password[e] = 0 THEN 0 ELSE 1)
                         /\ password[e] \in 0..LastPassword /\ resetRow[e] \in 0..Len(links)
                         /\ resetRow[e] # 0 => links[resetRow[e]].email = e
    /\ \A p \in Profiles : Cardinality({l \in logins : l.profile = p}) <= 1
    /\ \A s \in sessions : s.typed \in 1..password[s.email]
    /\ tries \in [Emails -> 0..TryLimit + 1]

AccountsInit ==
    /\ logins = {} /\ slugs = {} /\ invites = <<>> /\ links = <<>> /\ sessions = {}
    /\ password = [e \in Emails |-> 0] /\ resetRow = [e \in Emails |-> 0] /\ tries = [e \in Emails |-> 0]
    /\ \E kinds \in DoorKinds :
        door = [d \in Doors |-> [Closed EXCEPT !.kind = kinds[d]]]

Standing(d, pc) == door[d].pc = pc
Leave(d) == door' = [door EXCEPT ![d].pc = "done"]
Move(d, pc) == door' = [door EXCEPT ![d].pc = pc]

Taken(e) == password[e] # 0
Manned(p) == \E l \in logins : l.profile = p

\* No other request is between taking one of these locks and its commit.
RowUnlocked(S, pc) == \A d \in S : ~Standing(d, pc)

\* pending: neither accepted, revoked nor expired
Usable(i) == invites[i].state = "pending"

\* Faulty variant: the acceptance trusts the row it found before it took the lock.
AsFound(i) == TRUE
\* Under the lock, the invitation is still one that can be accepted.
StillOpen(i) == Usable(i)

Withdrawn(p) == [i \in DOMAIN invites |->
    IF invites[i].profile = p /\ invites[i].state \in {"pending", "expired"}
    THEN [invites[i] EXCEPT !.state = "revoked"] ELSE invites[i]]

-----------------------------------------------------------------------------
(* Signing up.                                                              *)

\* The account of the email: its user, credential and first session.
Enroll(e, profile) ==
    /\ logins' = logins \cup {[email |-> e, profile |-> profile]}
    /\ password' = [password EXCEPT ![e] = 1]
    /\ sessions' = sessions \cup {[email |-> e, typed |-> 1]}

\* Under the lock of the email; a name already used gets the next free suffix.
SignUp(d) ==
    /\ Standing(d, "idle") /\ door[d].kind = "signup" /\ Leave(d)
    /\ \E e \in Emails :
        IF Taken(e) THEN UNCHANGED <<logins, slugs, password, sessions>>
        ELSE /\ Enroll(e, Owner)
             /\ slugs' = slugs \cup {CHOOSE n \in 1..(Cardinality(slugs) + 1) :
                                        n \notin slugs /\ \A k \in 1..(n - 1) : k \in slugs}
    /\ UNCHANGED <<invites, links, resetRow, tries>>

-----------------------------------------------------------------------------
(* Invitations.                                                             *)

\* The studio's row is locked; neither an account nor another profile's invitation has the email.
CheckInvite(d) ==
    /\ Standing(d, "idle") /\ door[d].kind = "invite" /\ RowUnlocked(Doors, "invite")
    /\ \E e \in Emails, p \in Profiles :
        IF Taken(e) \/ \E i \in DOMAIN invites : Usable(i) /\ invites[i].email = e /\ invites[i].profile # p
        THEN Leave(d)
        ELSE door' = [door EXCEPT ![d].pc = "invite", ![d].email = e, ![d].profile = p]
    /\ UNCHANGED <<logins, slugs, invites, password, links, resetRow, sessions, tries>>

\* The profile's row is locked: the pending invitation is replaced.
WriteInvite(d) ==
    /\ Standing(d, "invite") /\ RowUnlocked({x \in Doors : door[x].profile = door[d].profile}, "accept") /\ Leave(d)
    /\ IF Manned(door[d].profile) THEN UNCHANGED invites
       ELSE /\ Len(invites) < LastRow
            /\ invites' = Append(Withdrawn(door[d].profile),
                    [email |-> door[d].email, profile |-> door[d].profile, state |-> "pending"])
    /\ UNCHANGED <<logins, slugs, password, links, resetRow, sessions, tries>>

RevokeInvite(d) ==
    /\ Standing(d, "idle") /\ door[d].kind = "revoke" /\ Leave(d)
    /\ \E p \in Profiles :
        /\ RowUnlocked({x \in Doors : door[x].profile = p}, "accept")
        /\ invites' = Withdrawn(p)
    /\ UNCHANGED <<logins, slugs, password, links, resetRow, sessions, tries>>

InviteExpires ==
    \E i \in DOMAIN invites :
        /\ Usable(i) /\ invites' = [invites EXCEPT ![i].state = "expired"]
        /\ \A d \in Doors : ~(Standing(d, "accept") /\ door[d].row = i)
        /\ UNCHANGED <<logins, slugs, password, links, resetRow, sessions, tries, door>>

\* The link finds its invitation before anything is locked.
FindInvite(d) ==
    /\ Standing(d, "idle") /\ door[d].kind = "accept"
    /\ \E i \in DOMAIN invites :
        door' = [door EXCEPT ![d].pc = "found", ![d].row = i, ![d].profile = invites[i].profile]
    /\ UNCHANGED <<logins, slugs, invites, password, links, resetRow, sessions, tries>>

\* Under the lock of the profile.
CheckAccept(d) ==
    /\ Standing(d, "found")
    /\ RowUnlocked({x \in Doors : door[x].profile = door[d].profile}, "accept")
    /\ Move(d, IF Manned(door[d].profile) \/ ~StillOpen(door[d].row) THEN "done" ELSE "accept")
    /\ UNCHANGED <<logins, slugs, invites, password, links, resetRow, sessions, tries>>

\* Under the lock of the email, the same as a sign-up's; the invitation is marked by its id.
WriteAccept(d) ==
    /\ Standing(d, "accept") /\ Leave(d)
    /\ LET i == door[d].row  e == invites[i].email IN
        IF Taken(e) THEN UNCHANGED <<logins, invites, password, sessions>>
        ELSE Enroll(e, door[d].profile)
             /\ invites' = [Withdrawn(door[d].profile) EXCEPT ![i].state = "accepted"]
    /\ UNCHANGED <<slugs, links, resetRow, tries>>

-----------------------------------------------------------------------------
(* Signing in and out.                                                      *)

CountLogin(d) ==
    /\ Standing(d, "idle") /\ door[d].kind = "login"
    /\ \E e \in Emails : \E typed \in 1..password[e] :
        /\ tries' = [tries EXCEPT ![e] = IF @ > TryLimit THEN @ ELSE @ + 1]
        /\ door' = [door EXCEPT ![d].email = e, ![d].typed = typed,
                                ![d].pc = IF tries[e] >= TryLimit THEN "done" ELSE "verify"]
    /\ UNCHANGED <<logins, slugs, invites, password, links, resetRow, sessions>>

VerifyLogin(d) ==
    /\ Standing(d, "verify")
    /\ Move(d, IF password[door[d].email] = door[d].typed THEN "session" ELSE "done")
    /\ UNCHANGED <<logins, slugs, invites, password, links, resetRow, sessions, tries>>

\* The session is inserted whatever happened to the password meanwhile.
InsertSession(d) ==
    /\ Standing(d, "session") /\ Move(d, "clear")
    /\ sessions' = sessions \cup {[email |-> door[d].email, typed |-> door[d].typed]}
    /\ UNCHANGED <<logins, slugs, invites, password, links, resetRow, tries>>

ClearTries(d) ==
    /\ Standing(d, "clear") /\ Leave(d) /\ tries' = [tries EXCEPT ![door[d].email] = 0]
    /\ UNCHANGED <<logins, slugs, invites, password, links, resetRow, sessions>>

SignOut ==
    /\ \E s \in sessions : sessions' = sessions \ {s}
    /\ UNCHANGED <<logins, slugs, invites, password, links, resetRow, tries, door>>

WindowEnds ==
    /\ \E e \in Emails : tries[e] # 0 /\ tries' = [tries EXCEPT ![e] = 0]
    /\ UNCHANGED <<logins, slugs, invites, password, links, resetRow, sessions, door>>

-----------------------------------------------------------------------------
(* Resetting a password.                                                    *)

\* One row for each account: a later request replaces the link of an earlier one.
IssueLink(d) ==
    /\ Standing(d, "idle") /\ door[d].kind = "forgot" /\ Len(links) < LastRow
    /\ \E e \in Emails :
        IF ~Taken(e) THEN Leave(d) /\ UNCHANGED <<links, resetRow>>
        ELSE /\ links' = Append(links, [email |-> e, state |-> "issued"])
             /\ resetRow' = [resetRow EXCEPT ![e] = Len(links) + 1]
             /\ door' = [door EXCEPT ![d].pc = "mail", ![d].email = e, ![d].row = Len(links) + 1]
    /\ UNCHANGED <<logins, slugs, invites, password, sessions, tries>>

MailLink(d) ==
    /\ Standing(d, "mail")
    /\ \/ Leave(d) /\ links' = [links EXCEPT ![door[d].row].state = IF @ = "issued" THEN "mailed" ELSE @]
       \/ Move(d, "unsent") /\ UNCHANGED links
    /\ UNCHANGED <<logins, slugs, invites, password, resetRow, sessions, tries>>

SameLink(e, link) == resetRow[e] = link

DropLink(d) ==
    /\ Standing(d, "unsent") /\ Leave(d)
    /\ resetRow' = IF SameLink(door[d].email, door[d].row) THEN [resetRow EXCEPT ![door[d].email] = 0] ELSE resetRow
    /\ UNCHANGED <<logins, slugs, invites, password, links, sessions, tries>>

LinkExpires ==
    /\ \E t \in DOMAIN links :
        links[t].state \in {"issued", "mailed"} /\ links' = [links EXCEPT ![t].state = "expired"]
    /\ UNCHANGED <<logins, slugs, invites, password, resetRow, sessions, tries, door>>

\* completePasswordReset, with the row locked; every session of the account ends.
RedeemLink(d) ==
    /\ Standing(d, "idle") /\ door[d].kind = "redeem" /\ Leave(d)
    /\ \E t \in DOMAIN links :
        LET e == links[t].email IN
        IF resetRow[e] # t \/ links[t].state = "expired" THEN UNCHANGED <<password, links, resetRow, sessions>>
        ELSE /\ password[e] < LastPassword /\ password' = [password EXCEPT ![e] = @ + 1]
             /\ sessions' = {s \in sessions : s.email # e}
             /\ resetRow' = [resetRow EXCEPT ![e] = 0] /\ links' = [links EXCEPT ![t].state = "used"]
    /\ UNCHANGED <<logins, slugs, invites, tries>>

DoorStep(d) ==
    \/ SignUp(d) \/ CheckInvite(d) \/ WriteInvite(d) \/ RevokeInvite(d) \/ FindInvite(d) \/ CheckAccept(d)
    \/ WriteAccept(d) \/ CountLogin(d) \/ VerifyLogin(d) \/ InsertSession(d) \/ ClearTries(d) \/ IssueLink(d)
    \/ MailLink(d) \/ DropLink(d) \/ RedeemLink(d)

AccountsNext ==
    InviteExpires \/ SignOut \/ WindowEnds \/ LinkExpires \/ \E d \in Doors : DoorStep(d)

AccountsSpec == AccountsInit /\ [][AccountsNext]_accountVars

-----------------------------------------------------------------------------
(* Properties.                                                              *)

\* However the owner's requests overlap, at most one link can be accepted for each
\* email and for each profile.
OneInvitationEach ==
    \A i, j \in DOMAIN invites : Usable(i) /\ Usable(j) /\ i # j =>
        invites[i].email # invites[j].email /\ invites[i].profile # invites[j].profile

\* An invitation the owner revoked or replaced is never accepted afterwards, though the
\* acceptance found it before, and it marks it by its id alone.
RevokedStaysRevoked ==
    [][\A i \in DOMAIN invites : invites[i].state = "revoked" => invites'[i].state = "revoked"]_accountVars

\* The last link that was mailed works until it is used or expires: neither an older
\* request whose mail fails late nor its own repetition takes it away.
MailedLinkWorks ==
    \A t \in DOMAIN links :
        /\ links[t].state = "mailed"
        /\ \A u \in DOMAIN links : links[u].email = links[t].email => u <= t
        => resetRow[links[t].email] = t

\* What the run checks of accounts: invitations and mailed links mean what they say.
AccountsSafe == []AccountsTypeOK /\ []OneInvitationEach /\ []MailedLinkWorks /\ RevokedStaysRevoked
=============================================================================
