---------------------------- MODULE MCS3Program ----------------------------
(***************************************************************************)
(* S3Program on a small instance: three keys behind "(null)", inputs of up  *)
(* to two growbuffer blocks, lists whose display names have one word, two,  *)
(* none, or a second word that looks like a line of its own.                *)
(***************************************************************************)
EXTENDS S3Program

MCKeys == 2..4
MCFiles == {<<>>, <<1, 2, 3>>}
MCStock == {[data |-> <<1, 2>>, properties |-> "private"]}
MCOldFiles == {<<3, 3, 3>>}

User(id, displayName, permission) ==
  [granteeType |-> "CanonicalUser", id |-> <<id>>, displayName |-> displayName,
   permission |-> permission]

Other(granteeType, id, permission) ==
  [granteeType |-> granteeType, id |-> id, displayName |-> <<>>, permission |-> permission]

Owned(displayName, grants) ==
  [ownerId |-> <<"o">>, ownerDisplayName |-> displayName, grants |-> grants]

Ann == << <<"ann">> >>

MCNames == {"o", "ann", "c", "carl", "gauss", "Email", "-", "g", "a@b"}

MCAcls ==
  {Owned(Ann, <<User("o", Ann, "FULL_CONTROL"), Other("AllUsers", <<>>, "READ")>>),
   Owned(Ann, <<User("c", << <<"carl">>, <<"gauss">> >>, "WRITE")>>),
   Owned(Ann, <<User("c", << <<"carl">>, <<"Email">> >>, "WRITE"), Other("AllUsers", <<>>, "READ")>>),
   Owned(Ann, <<User("c", << <<"carl">>, <<"-", "g">> >>, "WRITE"),
                Other("LogDelivery", <<>>, "WRITE_ACP")>>),
   Owned(<<>>, <<Other("AmazonCustomerByEmail", <<"a@b">>, "READ_ACP"),
                 Other("AllAwsUsers", <<>>, "READ")>>)}
=============================================================================
