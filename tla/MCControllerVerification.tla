---------------------- MODULE MCControllerVerification ----------------------
(* Four criteria, two of them on one verifier, one optional, one whose     *)
(* verifier the registry does not have.                                    *)
EXTENDS ControllerVerification

FourCriteria == <<"exact", "exact", "schema", "missing">>
=============================================================================
