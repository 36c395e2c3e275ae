-------------------------- MODULE MCProviderLimit --------------------------
(***************************************************************************)
(* Three sessions on two providers: two may use both and meet half way,    *)
(* the third has an override.                                              *)
(***************************************************************************)
EXTENDS ProviderLimit

MCChain  == [s \in Sessions |-> IF s = "s3" THEN {"p"} ELSE {"p", "q"}]
JustS3   == {"s3"}
=============================================================================
