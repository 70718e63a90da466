---------------------------- MODULE EnclaveHost -----------------------------
(***************************************************************************)
(* sample.cpp: processes that launch the enclave, call it and destroy it,  *)
(* and the file in the user's home directory in which they keep the launch *)
(* token between runs.  Each library call that touches the file is a step  *)
(* of its own; what fwrite buffers reaches the file when fclose flushes    *)
(* it.  SGX replaces a token it does not accept, the zero token always.    *)
(***************************************************************************)
EXTENDS Integers

CONSTANTS
    Process,   \* processes that run the program, each once
    Zero,      \* the token memset makes
    Torn,      \* a file, or a buffer, with a part of a token
    MaxFaults  \* bound: calls that fail and processes that end early

ASSUME HostConstants ==
    /\ MaxFaults \in Nat
    /\ Process # {}
    /\ Zero \notin Process /\ Torn \notin Process
    /\ {Zero, Torn} \cap {"absent", "empty", "nothing"} = {} /\ Zero # Torn

\* A token is named for the process whose launch made it.
Token == Process

VARIABLES
    file,    \* the content of the token file: "absent", "empty", Torn, a token
    pc,      \* the library call each process does next
    stream,  \* its FILE *fp: "closed" (NULL), "rb" or "wb"
    token,   \* its buffer
    passed,  \* history: what it passed to sgx_create_enclave_ex, or "nothing"
    enclaves, \* the processes whose enclave exists
    faults

hostVars == <<file, pc, stream, token, passed, enclaves, faults>>

At(p, from, to) == pc[p] = from /\ pc' = [pc EXCEPT ![p] = to]

Fault == faults < MaxFaults /\ faults' = faults + 1
Fine  == UNCHANGED faults

Close(p)      == stream' = [stream EXCEPT ![p] = "closed"]
Open(p, mode) == stream' = [stream EXCEPT ![p] = mode]

-----------------------------------------------------------------------------
(* initialize_enclave *)

\* fopen(token_path, "rb"): the file may be absent, or not readable.
fopen_read(p) ==
    /\ UNCHANGED <<file, token, passed, enclaves>>
    /\ \/ /\ file # "absent" /\ Fine
          /\ At(p, "fopen_read", "fread") /\ Open(p, "rb")
       \/ /\ \/ file = "absent" /\ Fine
             \/ file # "absent" /\ Fault
          /\ At(p, "fopen_read", "fopen_create") /\ UNCHANGED stream

\* fopen(token_path, "wb") empties the file if there is one by now.
fopen_create(p) ==
    /\ UNCHANGED <<token, passed, enclaves>>
    /\ \/ /\ At(p, "fopen_create", "fread") /\ Fine
          /\ Open(p, "wb") /\ file' = "empty"
       \/ /\ At(p, "fopen_create", "create") /\ Fault
          /\ UNCHANGED <<file, stream>>

\* Mutant of fread: a buffer that was read in part is kept.
MutantFread(p) ==
    /\ At(p, "fread", "create") /\ Fine
    /\ token' = [token EXCEPT ![p] =
         IF stream[p] = "rb" /\ file # "empty" THEN file ELSE Zero]
    /\ UNCHANGED <<file, stream, passed, enclaves>>

\* Nothing is read from a stream opened for writing; a part of a token is
\* cleared.
fread(p) ==
    /\ At(p, "fread", "create") /\ Fine
    /\ token' = [token EXCEPT ![p] =
         IF stream[p] = "rb" /\ file \in Token THEN file ELSE Zero]
    /\ UNCHANGED <<file, stream, passed, enclaves>>

\* sgx_create_enclave_ex, and the two ways out of the function that save
\* nothing: the launch failed; the token was not updated, or there is no stream.
LaunchFails(p) ==
    /\ At(p, "create", "return_-1") /\ Fault
    /\ Close(p)
    /\ UNCHANGED <<token, enclaves>>

\* Mutant of LaunchKeepsToken: the stream is not closed.
MutantLaunchKeepsToken(p) ==
    /\ token[p] # Zero
    /\ At(p, "create", "ecall") /\ Fine
    /\ enclaves' = enclaves \cup {p}
    /\ UNCHANGED <<stream, token>>

LaunchKeepsToken(p) ==
    /\ token[p] # Zero
    /\ At(p, "create", "ecall") /\ Fine
    /\ enclaves' = enclaves \cup {p}
    /\ Close(p)
    /\ UNCHANGED token

LaunchUpdatesToken(p) ==
    /\ At(p, "create", IF stream[p] = "closed" THEN "ecall" ELSE "freopen") /\ Fine
    /\ enclaves' = enclaves \cup {p}
    /\ token' = [token EXCEPT ![p] = p]
    /\ UNCHANGED stream

create_enclave(p) ==
    /\ LaunchFails(p) \/ LaunchKeepsToken(p) \/ LaunchUpdatesToken(p)
    /\ passed' = [passed EXCEPT ![p] = token[p]]
    /\ UNCHANGED file

\* Mutant of reopen: the file is emptied and its stream closed before the
\* process gives up saving.
MutantReopen(p) ==
    /\ At(p, "freopen", "ecall") /\ Fine
    /\ Close(p) /\ file' = "empty"
    /\ UNCHANGED <<token, passed, enclaves>>

\* freopen(token_path, "wb", fp) closes the stream, opens and empties the file.
reopen(p) ==
    /\ \/ /\ At(p, "freopen", "fclose") /\ Fine
          /\ Open(p, "wb") /\ file' = "empty"
       \/ /\ At(p, "freopen", "ecall") /\ Fault
          /\ Close(p) /\ UNCHANGED file
    /\ UNCHANGED <<token, passed, enclaves>>

\* fwrite and fclose: the token is written, in part if the write fails.
save_token(p) ==
    /\ At(p, "fclose", "ecall")
    /\ Close(p)
    /\ \/ Fine /\ file' = token[p]
       \/ Fault /\ file' \in {"empty", Torn}
    /\ UNCHANGED <<token, passed, enclaves>>

-----------------------------------------------------------------------------
(* main *)

\* ecall_mongoclient_sample returns, or main aborts and takes the enclave along.
ecall(p) ==
    /\ \/ At(p, "ecall", "destroy") /\ UNCHANGED enclaves
       \/ At(p, "ecall", "aborted") /\ enclaves' = enclaves \ {p}
    /\ Fine
    /\ UNCHANGED <<file, stream, token, passed>>

\* Mutant of destroy_enclave: main returns before it destroys the enclave.
MutantDestroyEnclave(p) ==
    At(p, "destroy", "exited") /\ Fine
      /\ UNCHANGED <<file, stream, token, passed, enclaves>>

destroy_enclave(p) ==
    /\ At(p, "destroy", "exited") /\ Fine
    /\ enclaves' = enclaves \ {p}
    /\ UNCHANGED <<file, stream, token, passed>>

exit_failure(p) ==
    /\ At(p, "return_-1", "exited") /\ Fine
    /\ UNCHANGED <<file, stream, token, passed, enclaves>>

Gone == {"exited", "aborted"}

\* The process is killed; what fwrite buffered is lost.
kill(p) ==
    /\ pc[p] \notin Gone /\ Fault
    /\ pc' = [pc EXCEPT ![p] = "aborted"]
    /\ Close(p)
    /\ enclaves' = enclaves \ {p}
    /\ UNCHANGED <<file, token, passed>>

-----------------------------------------------------------------------------
HostInit ==
    /\ file \in {"absent", "empty", Torn}
    /\ pc = [p \in Process |-> "fopen_read"]
    /\ stream = [p \in Process |-> "closed"]
    /\ token = [p \in Process |-> Zero]
    /\ passed = [p \in Process |-> "nothing"]
    /\ enclaves = {}
    /\ faults = 0

Untrusted(p) ==
    \/ fopen_read(p) \/ fopen_create(p) \/ fread(p) \/ create_enclave(p)
    \/ reopen(p) \/ save_token(p) \/ destroy_enclave(p) \/ exit_failure(p)
    \/ kill(p)

HostStep(p) == Untrusted(p) \/ ecall(p)

AllGone == (\A p \in Process : pc[p] \in Gone) /\ UNCHANGED hostVars

HostNext == (\E p \in Process : HostStep(p)) \/ AllGone

HostSpec == HostInit /\ [][HostNext]_hostVars

-----------------------------------------------------------------------------
(* Properties *)

Calls == {"fopen_read", "fopen_create", "fread", "create", "return_-1",
          "freopen", "fclose", "ecall", "destroy"}

\* The type invariant: an enclave exists exactly between its creation and the
\* end of its process or its destruction by main.
HostTypeOK ==
    /\ file \in {"absent", "empty", Torn} \cup Token
    /\ pc \in [Process -> Calls \cup Gone]
    /\ stream \in [Process -> {"closed", "rb", "wb"}]
    /\ token \in [Process -> Token \cup {Zero}]
    /\ passed \in [Process -> Token \cup {Zero, Torn, "nothing"}]
    /\ enclaves = {p \in Process :
                     pc[p] \in {"freopen", "fclose", "ecall", "destroy"}}
    /\ faults \in 0 .. MaxFaults

\* SGX only ever sees the zero token or one that a launch made, however other
\* processes truncate and rewrite the file meanwhile ("if token is invalid,
\* clear the buffer", sample.cpp:162).
NoTornTokenPassed == \A p \in Process : passed[p] # Torn

\* No path through initialize_enclave leaks the stream of the token file.
StreamClosedAfterInit ==
    \A p \in Process : pc[p] \in {"ecall", "destroy", "return_-1"} \cup Gone =>
        stream[p] = "closed"

\* Once every process is gone and nothing failed, the file has a whole token,
\* although each of them may have emptied it under the others: the next run
\* finds "the launch token saved by last transaction" (sample.cpp:138).
TokenSavedForNextRun ==
    faults = 0 /\ (\A p \in Process : pc[p] \in Gone) => file \in Token
=============================================================================
