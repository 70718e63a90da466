-------------------------- MODULE MCEnclaveRuntime --------------------------
(***************************************************************************)
(* EnclaveRuntime for TLC: one wrapper of each kind.                       *)
(***************************************************************************)
EXTENDS EnclaveRuntime

OneOfEach == {"recv", "getaddrinfo", "accept", "sgx_shutdown", "ioctl",
              "sgx_getenv", "pthread_mutex_lock"}
=============================================================================
