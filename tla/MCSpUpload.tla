------------------------------- MODULE MCSpUpload -------------------------------
(* Instances of SpUpload: two files, and programs that exit with 0, with 1 *)
(* and with a multiple of 256.                                             *)
EXTENDS SpUpload

MCCodes == {0, 1, 256}
MCUploadConfigs == {NoValidation, [enable |-> TRUE, simulation |-> FALSE],
                    [enable |-> TRUE, simulation |-> TRUE]}
=============================================================================
