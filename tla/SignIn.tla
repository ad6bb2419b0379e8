------------------------------- MODULE SignIn -------------------------------
(***************************************************************************)
(* POST /users: find the user of an identity, or make them.  The upsert    *)
(* looks, and inserts if it found nothing; the unique index refuses the    *)
(* second of two inserts, after which the server looks again by itself, or *)
(* the handler does, told of the duplicate.                                *)
(*                                                                         *)
(* A request mints one id, so ids are named after the requests that mint   *)
(* them: a user is made by the request whose name is the user's id.        *)
(*                                                                         *)
(* What this module defines is named apart from RecentlyOpened and Pins,   *)
(* so that one module may extend them all.                                 *)
(***************************************************************************)
CONSTANTS
  SignIns,      \* requests, any number of them at once
  Identities,   \* tenant and object id together
  Names         \* display names, which may differ between one person's sign-ins

VARIABLES
  users,     \* the collection
  signIn     \* SignIns -> where each handler has got to

signInVars == <<users, signIn>>

User == [id : SignIns, identity : Identities, displayName : Names]

SignInHandler == [pc       : {"looking", "inserting", "finding", "answered", "failed"},
                  identity : Identities,
                  name     : Names,
                  answer   : SUBSET User]

\* Users are of their type and each handler is at a step of find_or_create.
SignInTypeOK ==
  /\ users \in SUBSET User
  /\ signIn \in [SignIns -> SignInHandler]

SignInInit ==
  /\ users = {}
  /\ signIn \in [SignIns -> [pc : {"looking"}, identity : Identities,
                             name : Names, answer : {{}}]]

Found(r) == {user \in users : user.identity = signIn[r].identity}

AnswerWith(r, user) == [signIn EXCEPT ![r].pc = "answered", ![r].answer = {user}]

\* The user found is given the name of this sign-in, and answered with it.
Refresh(r) ==
  \E user \in Found(r) :
    LET named == [user EXCEPT !.displayName = signIn[r].name]
    IN  /\ users' = (users \ {user}) \cup {named}
        /\ signIn' = AnswerWith(r, named)

\* The upsert finds the user, or goes on to insert one.
Look(r) ==
  /\ signIn[r].pc = "looking"
  /\ \/ Refresh(r)
     \/ /\ Found(r) = {}
        /\ signIn' = [signIn EXCEPT ![r].pc = "inserting"]
        /\ UNCHANGED users

NewUser(r) == [id |-> r, identity |-> signIn[r].identity, displayName |-> signIn[r].name]

\* Mutant of Insert: the identity has no unique index.
InsertUnindexed(r) ==
  /\ signIn[r].pc = "inserting"
  /\ users' = users \cup {NewUser(r)}
  /\ signIn' = AnswerWith(r, NewUser(r))

Insert(r) ==
  /\ signIn[r].pc = "inserting"
  /\ Found(r) = {}
  /\ users' = users \cup {NewUser(r)}
  /\ signIn' = AnswerWith(r, NewUser(r))

\* Mutant of InsertLoses: nothing catches DuplicateKeyError.
InsertLosesUncaught(r) ==
  /\ signIn[r].pc = "inserting"
  /\ Found(r) # {}
  /\ \E next \in {"looking", "raised"} : signIn' = [signIn EXCEPT ![r].pc = next]
  /\ UNCHANGED users

\* Another sign-in made the user since the look: MongoDB retries the upsert, or
\* raises DuplicateKeyError.
InsertLoses(r) ==
  /\ signIn[r].pc = "inserting"
  /\ Found(r) # {}
  /\ \E next \in {"looking", "finding"} : signIn' = [signIn EXCEPT ![r].pc = next]
  /\ UNCHANGED users

\* Mutant of FindAgain: the second look only reads.
FindAgainReading(r) ==
  /\ signIn[r].pc = "finding"
  /\ \E user \in Found(r) : signIn' = AnswerWith(r, user)
  /\ UNCHANGED users

FindAgain(r) ==
  /\ signIn[r].pc = "finding"
  /\ Refresh(r)

\* The database fails the call, the write made or not, or the process dies.
Fail(r) ==
  /\ signIn[r].pc \in {"looking", "inserting", "finding"}
  /\ \/ UNCHANGED users
     \/ /\ signIn[r].pc = "inserting" /\ Found(r) = {}
        /\ users' = users \cup {NewUser(r)}
  /\ signIn' = [signIn EXCEPT ![r].pc = "failed"]

SignInNext == \E r \in SignIns :
  Look(r) \/ Insert(r) \/ InsertLoses(r) \/ FindAgain(r) \/ Fail(r)

SignInSpec == SignInInit /\ [][SignInNext]_signInVars

-----------------------------------------------------------------------------
(* Properties                                                              *)

\* Whoever signs in, however many times and at once, is one user: every sign-in
\* of an identity is answered the user there is, for good, and so at most one of
\* them is told it made them (records.py find_or_create).
SignInsAgree ==
  \A r \in SignIns : \A answered \in signIn[r].answer :
    /\ answered.id \in {user.id : user \in Found(r)}
    /\ \A q \in SignIns : signIn[q].identity = signIn[r].identity =>
         \A other \in signIn[q].answer : other.id = answered.id

\* A sign-in leaves the user with the name it brought, the one that lost the
\* race to make the user as well.
NameIsRefreshed ==
  [][\A r \in SignIns : signIn[r].pc # "answered" /\ signIn'[r].pc = "answered" =>
       \E user \in users' : /\ user.identity = signIn[r].identity
                            /\ user.displayName = signIn[r].name]_signInVars

=============================================================================
