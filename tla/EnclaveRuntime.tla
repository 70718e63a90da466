--------------------------- MODULE EnclaveRuntime ---------------------------
(***************************************************************************)
(* What happens inside the ecall of EnclaveHost: libmongoc and OpenSSL     *)
(* call C library functions, which my_wrappers.c, ssl_wrappers.c and       *)
(* pthread.c replace by OCALLs and stubs.  A wrapper whose OCALL fails     *)
(* prints an error and calls sgx_exit, which prints another and aborts;    *)
(* each of the two texts is printed by an OCALL that may fail as well.     *)
(***************************************************************************)
EXTENDS EnclaveHost, Sequences

CONSTANT Used  \* bound: the wrappers that are called

-----------------------------------------------------------------------------
(* The wrappers *)

\* my_wrappers.c
NameWrappers   == {"access", "getaddrinfo", "freeaddrinfo", "gethostbyname"}
SocketWrappers == {"fcntl", "poll", "getsockopt", "setsockopt", "accept", "close",
                   "ntohs", "bind", "shutdown", "connect", "listen", "socket"}
StreamWrappers == {"recv", "send", "sendmsg", "read"}
SystemWrappers == {"usleep", "getpid", "gethostname", "time"}

\* ssl_wrappers.c
ClockWrappers    == {"sgx_time", "sgx_localtime", "sgx_gmtime_r", "sgx_gettimeofday"}
SslSocketWrappers == {"sgx_getsockopt", "sgx_setsockopt", "sgx_socket", "sgx_bind",
                      "sgx_listen", "sgx_connect", "sgx_accept"}
SslFileWrappers  == {"sgx_read", "sgx_write", "sgx_close"}

\* Mutant of Unchecked: the printing functions look at the status as well.
MutantUnchecked == {"sgx_clock", "sgx_shutdown"}

\* Wrappers that ignore the status of their OCALL and return what is there.
Unchecked == {"sgx_clock", "sgx_shutdown", "printf", "putchar"}

\* Wrappers that call sgx_exit too when a pointer is into the enclave: one looks
\* at the pointer the host returned, one at that of its caller, which is always.
PointerWrappers == {"getaddrinfo", "accept"}
CallersPointer  == {"accept"}

Ocalls == NameWrappers \cup SocketWrappers \cup StreamWrappers \cup SystemWrappers
            \cup ClockWrappers \cup SslSocketWrappers \cup SslFileWrappers
            \cup Unchecked

\* Stubs print their name, or nothing, and return a constant, or whatever the
\* register of the result holds.
MissingFunctions == {"getservbyname", "getnameinfo", "getpeername", "ioctl", "open",
                     "getsockname"}
Environment      == {"sgx_getenv"}
SslStubs         == {"SSL_CTX_use_certificate_chain_file",
                     "SSL_CTX_use_PrivateKey_file", "SSL_CTX_load_verify_locations",
                     "X509_LOOKUP_file", "X509_load_crl_file", "BIO_s_file"}
PthreadPrinting  == {"pthread_create", "pthread_cond_timedwait", "pthread_cond_wait",
                     "pthread_cond_broadcast", "pthread_cond_signal", "pthread_join",
                     "pthread_mutex_trylock"}
PthreadSilent    == {"pthread_self", "pthread_mutex_destroy", "pthread_mutex_init",
                     "pthread_cond_destroy", "pthread_cond_init",
                     "pthread_mutex_lock", "pthread_mutex_unlock"}
SystemStubs      == {"syscall", "uname", "SSL_CTX_set_default_verify_paths",
                     "__xpg_strerror_r"}

PrintingStubs == MissingFunctions \cup Environment \cup SslStubs \cup PthreadPrinting
SilentStubs   == PthreadSilent \cup SystemStubs

Wrappers == Ocalls \cup PrintingStubs \cup SilentStubs

ASSUME RuntimeConstants == Used \subseteq Wrappers

-----------------------------------------------------------------------------
VARIABLES
    frames,   \* the wrappers each thread is in, and what each does next
    crashed   \* the processes whose enclave aborted

runtime     == <<frames, crashed>>
runtimeVars == <<hostVars, runtime>>

InLibrary(p) == pc[p] = "ecall" /\ ~crashed[p] /\ frames[p] = <<>>

Doing(p, label) == /\ pc[p] = "ecall" /\ frames[p] # <<>>
                   /\ Head(frames[p]).at = label

Frame(f, label) == [fn |-> f, at |-> label]

\* The innermost function goes on at a label, and calls another one before.
Jump(p, label) ==
    frames' = [frames EXCEPT ![p] = <<Frame(Head(@).fn, label)>> \o Tail(@)]

Calling(p, f, entry, label) ==
    frames' = [frames EXCEPT ![p] =
        <<Frame(f, entry), Frame(Head(@).fn, label)>> \o Tail(@)]

\* The innermost function returns to its caller.
Pop(p) == frames' = [frames EXCEPT ![p] = Tail(@)]

-----------------------------------------------------------------------------
(* The steps of a thread *)

\* libmongoc or OpenSSL calls a wrapper.
Use(p) ==
    /\ InLibrary(p)
    /\ \E f \in Used :
         frames' = [frames EXCEPT ![p] = <<Frame(f,
             IF f \in Ocalls THEN "ocall"
             ELSE IF f \in PrintingStubs THEN "print" ELSE "return")>>]
    /\ UNCHANGED crashed

\* The host does what it is asked for; then the pointers are looked at.
OcallDone(p) ==
    /\ Doing(p, "ocall")
    /\ \/ Head(frames[p]).fn \notin CallersPointer /\ Pop(p)
       \/ Head(frames[p]).fn \in PointerWrappers /\ Jump(p, "error")
    /\ UNCHANGED crashed

OcallFails(p) ==
    /\ Doing(p, "ocall")
    /\ IF Head(frames[p]).fn \in Unchecked THEN Pop(p) ELSE Jump(p, "error")
    /\ UNCHANGED crashed

\* printf("Error in ... OCALL"), printf("sgx_exit: ..."), printf("TODO ...").
Prints(p) ==
    /\ \/ Doing(p, "error") /\ Calling(p, "printf", "ocall", "exit")
       \/ Doing(p, "print") /\ Head(frames[p]).fn = "sgx_exit"
            /\ Calling(p, "printf", "ocall", "assert")
       \/ Doing(p, "print") /\ Head(frames[p]).fn # "sgx_exit"
            /\ Calling(p, "printf", "ocall", "return")
    /\ UNCHANGED crashed

\* sgx_exit; were it to return, the wrapper would return what it has.
Exits(p) ==
    /\ Doing(p, "exit") /\ Calling(p, "sgx_exit", "print", "return")
    /\ UNCHANGED crashed

\* Mutant of Asserts: built with NDEBUG, sgx_exit returns.
MutantAsserts(p) ==
    Doing(p, "assert") /\ Pop(p) /\ UNCHANGED crashed

\* assert(0)
Asserts(p) ==
    /\ Doing(p, "assert")
    /\ crashed' = [crashed EXCEPT ![p] = TRUE]
    /\ frames' = [frames EXCEPT ![p] = <<>>]

\* The end of a stub.
Returns(p) == Doing(p, "return") /\ Pop(p) /\ UNCHANGED crashed

\* The ecall returns SGX_SUCCESS, or the error of a crash on which main aborts.
EcallEnds(p) ==
    /\ ecall(p)
    /\ frames[p] = <<>>
    /\ pc'[p] = "aborted" <=> crashed[p]
    /\ UNCHANGED runtime

RuntimeInit ==
    /\ HostInit
    /\ frames = [p \in Process |-> <<>>]
    /\ crashed = [p \in Process |-> FALSE]

Inside(p) ==
    /\ \/ Use(p) \/ OcallDone(p) \/ OcallFails(p) \/ Prints(p) \/ Exits(p)
       \/ Asserts(p) \/ Returns(p)
    /\ UNCHANGED hostVars

\* Killing a process kills the thread that is in its enclave.
Outside(p) ==
    /\ Untrusted(p)
    /\ frames' = [frames EXCEPT ![p] = IF pc'[p] \in Gone THEN <<>> ELSE @]
    /\ UNCHANGED crashed

RuntimeNext ==
    \/ \E p \in Process : Inside(p) \/ Outside(p) \/ EcallEnds(p)
    \/ AllGone /\ UNCHANGED runtime

\* A thread in a wrapper, and one whose enclave crashed, goes on; the libraries
\* need not call, nor the ecall return.
RuntimeFairness ==
    \A p \in Process : /\ WF_runtimeVars(Inside(p) /\ frames[p] # <<>>)
                       /\ WF_runtimeVars(EcallEnds(p) /\ crashed[p])

RuntimeSpec == RuntimeInit /\ [][RuntimeNext]_runtimeVars /\ RuntimeFairness

-----------------------------------------------------------------------------
(* Properties *)

\* The error path cannot run away although it makes OCALLs that may fail: at
\* most a wrapper, sgx_exit and its printf are on the stack of a thread.
ErrorPathBounded == \A p \in Process : Len(frames[p]) <= 3

\* libmongoc never goes on with a result that was not set because the OCALL
\* failed, but for the clock, shutdown and printing: no other wrapper gets past
\* its sgx_exit, which a build without assertions would make return.
FailedCallsEnd ==
    \A p \in Process :
        Doing(p, "return") => Head(frames[p]).fn \notin Ocalls

\* A wrapper that found its OCALL failed or its pointer wrong ends the process,
\* whatever fails while it reports that.
ErrorEndsProcess ==
    \A p \in Process :
        (\E i \in DOMAIN frames[p] : frames[p][i].at \in {"error", "exit"})
          ~> pc[p] \in Gone
=============================================================================
