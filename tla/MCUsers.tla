------------------------------ MODULE MCUsers ------------------------------
(***************************************************************************)
(* How a user's record is made and what is opened, on small instances.     *)
(* The two share no field of the record, so a behaviour is of one of them, *)
(* chosen in the initial state.                                            *)
(*                                                                         *)
(* Three sign-ins of one person or two, under one name or two.  Four       *)
(* openings of three guides and one there is not, at three times, on a     *)
(* list of two: a guide may be opened again, pushed off the list by two    *)
(* others, and openings may share a time.                                  *)
(***************************************************************************)
EXTENDS SignIn, RecentlyOpened, TLC

CONSTANTS a, b, c, x

VARIABLE operation   \* "sign in" or "open": which of the two is going on

allVars == <<operation, signInVars, openingVars>>

MCGuides == {a, b, c, x}
MCExisting == {a, b, c}

Symmetry == Permutations(Visits) \cup Permutations(MCExisting)

\* Who signs in matters to signing in alone.
Anyone == CHOOSE handler \in [pc : {"looking"}, identity : Identities, name : Names, answer : {{}}] : TRUE

UsersInit ==
  /\ operation \in {"sign in", "open"}
  /\ SignInInit /\ OpeningInit
  /\ operation = "open" => signIn = [r \in SignIns |-> Anyone]

UsersNext ==
  \/ operation = "sign in" /\ SignInNext  /\ UNCHANGED <<operation, openingVars>>
  \/ operation = "open"    /\ OpeningNext /\ UNCHANGED <<operation, signInVars>>

UsersSpec == UsersInit /\ [][UsersNext]_allVars

=============================================================================
