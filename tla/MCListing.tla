----------------------------- MODULE MCListing -----------------------------
(***************************************************************************)
(* Listing with three guides, one there no longer is, a scheme the reference *)
(* data no longer has, and details stored in every shape they come in.     *)
(***************************************************************************)
EXTENDS Listing

List(values) == [is |-> "list", values |-> values]
Lone(value)  == [is |-> "lone", values |-> <<value>>]
Missing      == [is |-> "missing", values |-> <<>>]

MCDetails ==
  << [schemes |-> List(<<"A", NOT_SCHEME_SPECIFIC>>), systems |-> Lone("S")],
     [schemes |-> List(<<NOT_SCHEME_SPECIFIC>>), systems |-> List(<<"S", "object">>)],
     [schemes |-> List(<<"Z", "A", "A">>), systems |-> Missing] >>

MCWords == <<"A", "B", NOT_SCHEME_SPECIFIC, "S", "Z">>
MCReference == [schemes |-> <<"B", "A">>, systems |-> <<"S">>]

MCOwnLists == {<<4, 2, 1>>, <<3, 4, 2>>}

MCFilters ==
  { <<>>, [schemes |-> {"A"}], [schemes |-> {"B"}, systems |-> {"S"}], [schemes |-> {"Z"}] }

=============================================================================
