-------------------------- MODULE MCRequestService --------------------------
(* The proof request service for TLC. The request sizes make each of the   *)
(* admission limits bite: a device size over its limit, and input sizes of *)
(* which two large ones do not fit together.                               *)
EXTENDS RequestService

MCDeviceSizes == {1, 2}
MCInputSizes == {1, 2}
=============================================================================
