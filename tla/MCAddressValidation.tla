------------------------ MODULE MCAddressValidation ------------------------
(* Small instances of AddressValidation for TLC; all constants come from   *)
(* the cfg.                                                                *)
EXTENDS AddressValidation
=============================================================================
