--------------------------- MODULE EnclaveProofs ----------------------------
(***************************************************************************)
(* Theorems of EnclaveHost for any number of processes and faults, and of  *)
(* EnclaveRuntime for whatever wrappers the libraries call.                *)
(***************************************************************************)
EXTENDS EnclaveRuntime, TLAPS

\* What the variables of one process say of each other.
ProcessOK(p) ==
    /\ token[p] # Torn /\ passed[p] # Torn
    /\ pc[p] \in {"freopen", "fclose"} => token[p] = p
    /\ pc[p] \notin {"fread", "create", "freopen", "fclose"} => stream[p] = "closed"
    /\ faults = 0 /\ pc[p] \in {"fread", "create"} => stream[p] # "closed"

\* A process that is going to launch with the zero token, so that SGX makes a
\* new one, or to save the token it has.
WillSave(p) ==
    \/ pc[p] \in {"fopen_read", "fopen_create", "freopen", "fclose"}
    \/ pc[p] = "fread" /\ (stream[p] = "wb" \/ file \notin Token)
    \/ pc[p] = "create" /\ token[p] = Zero

\* Without a fault, the file has a token or someone is going to save one.
SaveOK == faults = 0 => file \in Token \/ \E p \in Process : WillSave(p)

HostInv == HostTypeOK /\ (\A p \in Process : ProcessOK(p)) /\ SaveOK

LEMMA HostInitInv == HostInit => HostInv
<1> SUFFICES ASSUME HostInit PROVE HostInv
  OBVIOUS
<1>1. HostTypeOK
  BY HostConstants DEF HostInit, HostTypeOK, Calls, Gone, Token
<1>2. \A p \in Process : ProcessOK(p)
  BY HostConstants DEF HostInit, ProcessOK
<1>3. SaveOK
  BY HostConstants DEF HostInit, SaveOK, WillSave
<1> QED BY <1>1, <1>2, <1>3 DEF HostInv

-----------------------------------------------------------------------------
(* Every step keeps the type invariant and the facts about its process *)

LEMMA StepKeepsType ==
    ASSUME HostInv, NEW p \in Process, HostStep(p)
    PROVE  HostTypeOK'
<1> USE HostConstants DEF HostInv, HostTypeOK, Token, Calls, Gone, At, Close,
        Open, Fault, Fine
<1>1. CASE fopen_read(p)
  BY <1>1 DEF fopen_read
<1>2. CASE fopen_create(p)
  BY <1>2 DEF fopen_create
<1>3. CASE fread(p)
  BY <1>3 DEF fread
<1>4. CASE create_enclave(p)
  BY <1>4 DEF create_enclave, LaunchFails, LaunchKeepsToken, LaunchUpdatesToken
<1>5. CASE reopen(p)
  BY <1>5 DEF reopen
<1>6. CASE save_token(p)
  BY <1>6 DEF save_token, ProcessOK
<1>7. CASE ecall(p)
  BY <1>7 DEF ecall
<1>8. CASE destroy_enclave(p)
  BY <1>8 DEF destroy_enclave
<1>9. CASE exit_failure(p)
  BY <1>9 DEF exit_failure
<1>10. CASE kill(p)
  BY <1>10 DEF kill
<1> QED BY <1>1, <1>2, <1>3, <1>4, <1>5, <1>6, <1>7, <1>8, <1>9, <1>10
        DEF HostStep, Untrusted

\* A step changes the variables of its own process only.
LEMMA StepIsLocal ==
    ASSUME HostTypeOK, NEW p \in Process, HostStep(p), NEW q \in Process, q # p
    PROVE  /\ pc'[q] = pc[q] /\ stream'[q] = stream[q]
           /\ token'[q] = token[q] /\ passed'[q] = passed[q]
           /\ faults' = 0 => faults = 0
<1> USE DEF HostTypeOK, At, Close, Open, Fault, Fine
<1>1. CASE fopen_read(p) \/ fopen_create(p) \/ fread(p)
  BY <1>1 DEF fopen_read, fopen_create, fread
<1>2. CASE create_enclave(p)
  BY <1>2 DEF create_enclave, LaunchFails, LaunchKeepsToken, LaunchUpdatesToken
<1>3. CASE reopen(p) \/ save_token(p)
  BY <1>3 DEF reopen, save_token
<1>4. CASE ecall(p) \/ destroy_enclave(p) \/ exit_failure(p) \/ kill(p)
  BY <1>4 DEF ecall, destroy_enclave, exit_failure, kill
<1> QED BY <1>1, <1>2, <1>3, <1>4 DEF HostStep, Untrusted

LEMMA StepKeepsProcess ==
    ASSUME HostInv, NEW p \in Process, HostStep(p)
    PROVE  ProcessOK(p)'
<1> USE HostConstants DEF HostInv, HostTypeOK, ProcessOK, Token, Gone, At,
        Close, Open, Fault, Fine
<1>1. CASE fopen_read(p)
  BY <1>1 DEF fopen_read
<1>2. CASE fopen_create(p)
  BY <1>2 DEF fopen_create
<1>3. CASE fread(p)
  BY <1>3 DEF fread
<1>4. CASE create_enclave(p)
  BY <1>4 DEF create_enclave, LaunchFails, LaunchKeepsToken, LaunchUpdatesToken
<1>5. CASE reopen(p)
  BY <1>5 DEF reopen
<1>6. CASE save_token(p)
  BY <1>6 DEF save_token
<1>7. CASE ecall(p) \/ destroy_enclave(p) \/ exit_failure(p)
  BY <1>7 DEF ecall, destroy_enclave, exit_failure
<1>8. CASE kill(p)
  BY <1>8 DEF kill
<1> QED BY <1>1, <1>2, <1>3, <1>4, <1>5, <1>6, <1>7, <1>8 DEF HostStep, Untrusted

-----------------------------------------------------------------------------
(* Who saves the token *)

\* The steps that empty the file leave a process that is going to save: the
\* one that emptied it.
LEMMA StepKeepsSave ==
    ASSUME HostInv, NEW p \in Process, HostStep(p)
    PROVE  SaveOK'
<1> SUFFICES ASSUME faults' = 0
             PROVE  file' \in Token \/ \E q \in Process : WillSave(q)'
  BY DEF SaveOK
<1>1. faults = 0
  BY DEF HostStep, Untrusted, fopen_read, fopen_create, fread, create_enclave, LaunchFails,
         LaunchKeepsToken, LaunchUpdatesToken, reopen, save_token, ecall,
         destroy_enclave, exit_failure, kill, Fault, Fine, HostInv, HostTypeOK
<1>2. CASE WillSave(p)' \/ file' \in Token
  BY <1>2
<1>3. CASE ~WillSave(p)' /\ file' \notin Token
  <2> USE <1>1, <1>3, HostConstants DEF HostInv, HostTypeOK, ProcessOK,
          WillSave, Token, At, Close, Open, Fault, Fine
  <2>1. file' = file
    <3>1. CASE fopen_create(p)
      BY <3>1 DEF fopen_create
    <3>2. CASE reopen(p)
      BY <3>2 DEF reopen
    <3>3. CASE save_token(p)
      BY <3>3 DEF save_token
    <3>4. CASE ~(fopen_create(p) \/ reopen(p) \/ save_token(p))
      BY <3>4 DEF HostStep, Untrusted, fopen_read, fread, create_enclave, ecall,
                  destroy_enclave, exit_failure, kill
    <3> QED BY <3>1, <3>2, <3>3, <3>4
  <2>2. ~WillSave(p)
    <3>1. CASE fopen_read(p) \/ fopen_create(p) \/ fread(p)
      BY <2>1, <3>1 DEF fopen_read, fopen_create, fread
    <3>2. CASE create_enclave(p)
      BY <2>1, <3>2 DEF create_enclave, LaunchFails, LaunchKeepsToken,
                        LaunchUpdatesToken
    <3>3. CASE reopen(p) \/ save_token(p)
      BY <2>1, <3>3 DEF reopen, save_token
    <3>4. CASE ecall(p) \/ destroy_enclave(p) \/ exit_failure(p) \/ kill(p)
      BY <3>4 DEF ecall, destroy_enclave, exit_failure, kill
    <3> QED BY <3>1, <3>2, <3>3, <3>4 DEF HostStep, Untrusted
  <2>3. PICK q \in Process : WillSave(q)
    BY <2>1 DEF SaveOK
  <2>4. q # p
    BY <2>2, <2>3
  <2>5. /\ pc'[q] = pc[q] /\ stream'[q] = stream[q] /\ token'[q] = token[q]
    BY <2>4, StepIsLocal
  <2> QED BY <2>1, <2>3, <2>5
<1> QED BY <1>2, <1>3

-----------------------------------------------------------------------------
LEMMA NextKeepsHostInv == HostInv /\ [HostNext]_hostVars => HostInv'
<1> SUFFICES ASSUME HostInv, [HostNext]_hostVars PROVE HostInv'
  OBVIOUS
<1>1. CASE UNCHANGED hostVars
  BY <1>1 DEF hostVars, HostInv, HostTypeOK, ProcessOK, SaveOK, WillSave
<1>2. ASSUME NEW p \in Process, HostStep(p) PROVE HostInv'
  <2>1. ProcessOK(p)'
    BY <1>2, StepKeepsProcess
  <2>2. ASSUME NEW q \in Process, q # p PROVE ProcessOK(q)'
    <3>1. /\ pc'[q] = pc[q] /\ stream'[q] = stream[q]
          /\ token'[q] = token[q] /\ passed'[q] = passed[q]
          /\ faults' = 0 => faults = 0
      BY <1>2, <2>2, StepIsLocal DEF HostInv
    <3> QED BY <3>1 DEF HostInv, ProcessOK
  <2> QED BY <1>2, <2>1, <2>2, StepKeepsType, StepKeepsSave DEF HostInv
<1> QED BY <1>1, <1>2 DEF HostNext, AllGone

LEMMA HostInvariant == HostSpec => []HostInv
BY HostInitInv, NextKeepsHostInv, PTL DEF HostSpec

\* Type correctness; an enclave exists exactly while main has it.
THEOREM HostTypeCorrect == HostSpec => []HostTypeOK
<1>1. HostInv => HostTypeOK
  BY DEF HostInv
<1> QED BY <1>1, HostInvariant, PTL

\* However many processes truncate and rewrite the token file, and wherever
\* they are killed, SGX is never given a part of a token.
THEOREM TornTokenNeverPassed == HostSpec => []NoTornTokenPassed
<1>1. HostInv => NoTornTokenPassed
  BY DEF HostInv, ProcessOK, NoTornTokenPassed
<1> QED BY <1>1, HostInvariant, PTL

\* Every way out of initialize_enclave closes the stream.
THEOREM StreamAlwaysClosed == HostSpec => []StreamClosedAfterInit
<1>1. HostInv => StreamClosedAfterInit
  BY DEF HostInv, ProcessOK, StreamClosedAfterInit, Gone
<1> QED BY <1>1, HostInvariant, PTL

\* If nothing fails, the token file is whole when the last process is gone.
THEOREM TokenAlwaysSaved == HostSpec => []TokenSavedForNextRun
<1>1. HostInv => TokenSavedForNextRun
  BY DEF HostInv, SaveOK, WillSave, TokenSavedForNextRun, Gone
<1> QED BY <1>1, HostInvariant, PTL

-----------------------------------------------------------------------------
(* A step of the runtime is one of the host, or none *)

LEMMA RuntimeStepIsHostStep == [RuntimeNext]_runtimeVars => [HostNext]_hostVars
<1> SUFFICES ASSUME [RuntimeNext]_runtimeVars PROVE [HostNext]_hostVars
  OBVIOUS
<1>1. CASE UNCHANGED runtimeVars
  BY <1>1 DEF runtimeVars
<1>2. ASSUME NEW p \in Process, Inside(p) PROVE UNCHANGED hostVars
  BY <1>2 DEF Inside
<1>3. ASSUME NEW p \in Process, Outside(p) \/ EcallEnds(p) PROVE HostNext
  BY <1>3 DEF Outside, EcallEnds, HostNext, HostStep
<1>4. CASE AllGone
  BY <1>4 DEF HostNext
<1> QED BY <1>1, <1>2, <1>3, <1>4 DEF RuntimeNext

\* What is proved of HostSpec holds of the runtime.
LEMMA RuntimeIsHost == RuntimeSpec => HostSpec
<1>1. RuntimeInit => HostInit
  BY DEF RuntimeInit
<1> QED BY <1>1, RuntimeStepIsHostStep, PTL DEF RuntimeSpec, HostSpec

-----------------------------------------------------------------------------
(* The stack of a thread *)

Checked  == Ocalls \ Unchecked
Stubs    == PrintingStubs \cup SilentStubs
Printing == Frame("printf", "ocall")

\* In a wrapper that waits for its OCALL.
Waiting(s) == \E f \in Ocalls : s = <<Frame(f, "ocall")>>

\* In a stub, and in the printf of one.
InStub(s) == \E f \in Stubs :
    \/ s = <<Frame(f, "print")>>
    \/ s = <<Printing, Frame(f, "return")>>
    \/ s = <<Frame(f, "return")>>

\* A wrapper found an error and reports it.
Reporting(s) == \E f \in Checked :
    \/ s = <<Frame(f, "error")>>
    \/ s = <<Printing, Frame(f, "exit")>>
    \/ s = <<Frame(f, "exit")>>

\* In sgx_exit, on its way to the assertion.
Exiting(s) == \E f \in Checked :
    \/ s = <<Frame("sgx_exit", "print"), Frame(f, "return")>>
    \/ s = <<Printing, Frame("sgx_exit", "assert"), Frame(f, "return")>>
    \/ s = <<Frame("sgx_exit", "assert"), Frame(f, "return")>>

StackOK(s) == s = <<>> \/ Waiting(s) \/ InStub(s) \/ Reporting(s) \/ Exiting(s)

RuntimeInv ==
    /\ DOMAIN frames = Process
    /\ \A p \in Process : StackOK(frames[p])

LEMMA Kinds ==
    /\ PointerWrappers \subseteq Checked
    /\ Checked \subseteq Ocalls /\ "printf" \in Ocalls
    /\ Ocalls \cap Unchecked = Unchecked
    /\ \A f \in Stubs : f \notin Ocalls /\ f # "sgx_exit"
    /\ "printf" \notin Checked /\ "sgx_exit" \notin Ocalls
    /\ Used \subseteq Ocalls \cup Stubs
BY RuntimeConstants
   DEF PointerWrappers, Checked, Ocalls, Unchecked, Stubs, PrintingStubs,
       SilentStubs, Wrappers, NameWrappers, SocketWrappers, StreamWrappers,
       SystemWrappers, ClockWrappers, SslSocketWrappers, SslFileWrappers,
       MissingFunctions, Environment, SslStubs, PthreadPrinting, PthreadSilent,
       SystemStubs

LEMMA StepKeepsStack ==
    ASSUME RuntimeInv, NEW p \in Process, Inside(p)
    PROVE  StackOK(frames'[p])
<1> DEFINE s == frames[p]
<1> USE Kinds DEF RuntimeInv
<1>0. StackOK(s)
  OBVIOUS
<1>1. CASE Use(p)
  BY <1>1 DEF Use, StackOK, Waiting, InStub, Stubs
<1>2. CASE OcallDone(p) \/ OcallFails(p)
  <2>1. /\ s # <<>> /\ Head(s).at = "ocall"
        /\ \/ frames'[p] = Tail(s)
           \/ /\ Head(s).fn \in PointerWrappers \/ Head(s).fn \notin Unchecked
              /\ frames'[p] = <<Frame(Head(s).fn, "error")>> \o Tail(s)
    BY <1>2 DEF OcallDone, OcallFails, Doing, Pop, Jump
  <2>2. CASE Waiting(s)
    <3>1. PICK f \in Ocalls : s = <<Frame(f, "ocall")>>
      BY <2>2 DEF Waiting
    <3>2. Head(s).fn = f /\ Tail(s) = <<>>
      BY <3>1 DEF Frame
    <3>3. CASE frames'[p] = Tail(s)
      BY <3>2, <3>3 DEF StackOK
    <3>4. CASE f \in Checked /\ frames'[p] = <<Frame(f, "error")>>
      BY <3>4 DEF StackOK, Reporting
    <3>5. ASSUME /\ Head(s).fn \in PointerWrappers \/ Head(s).fn \notin Unchecked
                 /\ frames'[p] = <<Frame(Head(s).fn, "error")>> \o Tail(s)
          PROVE  f \in Checked /\ frames'[p] = <<Frame(f, "error")>>
      <4>1. f \in PointerWrappers \/ f \notin Unchecked
        BY <3>2, <3>5, Zenon
      <4>2. f \in Checked
        BY <4>1, Kinds, Zenon DEF Checked
      <4>3. frames'[p] = <<Frame(f, "error")>> \o <<>>
        BY <3>2, <3>5, Zenon
      <4> QED BY <4>2, <4>3
    <3> QED BY <2>1, <3>3, <3>4, <3>5, Zenon
  <2>3. CASE InStub(s)
    <3>1. PICK f \in Stubs : s = <<Printing, Frame(f, "return")>>
      BY <2>1, <2>3 DEF InStub, Frame
    <3>2. Head(s).fn = "printf" /\ Tail(s) = <<Frame(f, "return")>>
      BY <3>1 DEF Frame, Printing
    <3> QED BY <2>1, <3>1, <3>2 DEF StackOK, InStub, Checked
  <2>4. CASE Reporting(s)
    <3>1. PICK f \in Checked : s = <<Printing, Frame(f, "exit")>>
      BY <2>1, <2>4 DEF Reporting, Frame
    <3>2. Head(s).fn = "printf" /\ Tail(s) = <<Frame(f, "exit")>>
      BY <3>1 DEF Frame, Printing
    <3> QED BY <2>1, <3>1, <3>2 DEF StackOK, Reporting, Checked
  <2>5. CASE Exiting(s)
    <3>1. PICK f \in Checked :
            s = <<Printing, Frame("sgx_exit", "assert"), Frame(f, "return")>>
      BY <2>1, <2>5 DEF Exiting, Frame
    <3>2. /\ Head(s).fn = "printf"
          /\ Tail(s) = <<Frame("sgx_exit", "assert"), Frame(f, "return")>>
      BY <3>1 DEF Frame, Printing
    <3> QED BY <2>1, <3>1, <3>2 DEF StackOK, Exiting, Checked
  <2> QED BY <1>0, <2>1, <2>2, <2>3, <2>4, <2>5 DEF StackOK
<1>3. CASE Prints(p)
  <2>1. CASE Doing(p, "error")
    <3>1. PICK f \in Checked : s = <<Frame(f, "error")>>
      BY <1>0, <2>1 DEF Doing, StackOK, Waiting, InStub, Reporting, Exiting, Frame,
         Printing
    <3> QED BY <1>3, <2>1, <3>1
            DEF Prints, Doing, Calling, StackOK, Reporting, Frame, Printing
  <2>2. CASE Doing(p, "print") /\ Head(s).fn = "sgx_exit"
    <3>1. PICK f \in Checked : s = <<Frame("sgx_exit", "print"), Frame(f, "return")>>
      BY <1>0, <2>2 DEF Doing, StackOK, Waiting, InStub, Reporting, Exiting, Frame,
         Printing
    <3> QED BY <1>3, <2>2, <3>1
            DEF Prints, Doing, Calling, StackOK, Exiting, Frame, Printing
  <2>3. CASE Doing(p, "print") /\ Head(s).fn # "sgx_exit"
    <3>1. PICK f \in Stubs : s = <<Frame(f, "print")>>
      BY <1>0, <2>3 DEF Doing, StackOK, Waiting, InStub, Reporting, Exiting, Frame,
         Printing
    <3> QED BY <1>3, <2>3, <3>1
            DEF Prints, Doing, Calling, StackOK, InStub, Frame, Printing
  <2> QED BY <1>3, <2>1, <2>2, <2>3 DEF Prints
<1>4. CASE Exits(p)
  <2>1. PICK f \in Checked : s = <<Frame(f, "exit")>>
    BY <1>0, <1>4 DEF Exits, Doing, StackOK, Waiting, InStub, Reporting, Exiting, Frame,
       Printing
  <2> QED BY <1>4, <2>1 DEF Exits, Calling, StackOK, Exiting, Frame
<1>5. CASE Asserts(p)
  BY <1>5 DEF Asserts, StackOK
<1>6. CASE Returns(p)
  <2>1. PICK f \in Stubs : s = <<Frame(f, "return")>>
    BY <1>0, <1>6 DEF Returns, Doing, StackOK, Waiting, InStub, Reporting, Exiting, Frame,
       Printing
  <2> QED BY <1>6, <2>1 DEF Returns, Pop, StackOK
<1> QED BY <1>1, <1>2, <1>3, <1>4, <1>5, <1>6 DEF Inside

LEMMA RuntimeInvariant == RuntimeSpec => []RuntimeInv
<1>1. RuntimeInit => RuntimeInv
  BY DEF RuntimeInit, RuntimeInv, StackOK
<1>2. RuntimeInv /\ [RuntimeNext]_runtimeVars => RuntimeInv'
  <2> SUFFICES ASSUME RuntimeInv, [RuntimeNext]_runtimeVars PROVE RuntimeInv'
    OBVIOUS
  <2>1. CASE frames' = frames
    BY <2>1 DEF RuntimeInv
  <2>2. ASSUME NEW p \in Process, Inside(p) PROVE RuntimeInv'
    <3>1. StackOK(frames'[p])
      BY <2>2, StepKeepsStack
    <3>2. /\ DOMAIN frames' = Process
          /\ \A q \in Process \ {p} : frames'[q] = frames[q]
      BY <2>2 DEF RuntimeInv, Inside, Use, OcallDone, OcallFails, Prints, Exits,
         Asserts, Returns, Pop, Jump, Calling
    <3> QED BY <3>1, <3>2 DEF RuntimeInv
  <2>3. ASSUME NEW p \in Process, Outside(p) PROVE RuntimeInv'
    BY <2>3 DEF Outside, RuntimeInv, StackOK
  <2> QED BY <2>1, <2>2, <2>3
          DEF RuntimeNext, EcallEnds, runtimeVars, runtime
<1> QED BY <1>1, <1>2, PTL DEF RuntimeSpec

LEMMA StackLengths ==
    ASSUME NEW a, NEW b, NEW c
    PROVE  Len(<<a>>) <= 3 /\ Len(<<a, b>>) <= 3 /\ Len(<<a, b, c>>) <= 3
OBVIOUS

\* However often the OCALLs of the error path fail, the path does not begin
\* again inside itself.
THEOREM ErrorPathAlwaysBounded == RuntimeSpec => []ErrorPathBounded
<1>1. RuntimeInv => ErrorPathBounded
  <2> SUFFICES ASSUME RuntimeInv, NEW p \in Process PROVE Len(frames[p]) <= 3
    BY DEF ErrorPathBounded
  <2>1. CASE frames[p] = <<>>
    BY <2>1
  <2>2. CASE Waiting(frames[p])
    BY <2>2 DEF Waiting
  <2>3. CASE InStub(frames[p])
    BY <2>3, StackLengths, Zenon DEF InStub
  <2>4. CASE Reporting(frames[p])
    BY <2>4, StackLengths, Zenon DEF Reporting
  <2>5. CASE Exiting(frames[p])
    BY <2>5, StackLengths, Zenon DEF Exiting
  <2> QED BY <2>1, <2>2, <2>3, <2>4, <2>5 DEF RuntimeInv, StackOK
<1> QED BY <1>1, RuntimeInvariant, PTL

\* No wrapper that looks at the status of its OCALL returns without an answer.
THEOREM FailedCallsAlwaysEnd == RuntimeSpec => []FailedCallsEnd
<1>1. RuntimeInv => FailedCallsEnd
  <2> SUFFICES ASSUME RuntimeInv, NEW p \in Process, Doing(p, "return")
               PROVE  Head(frames[p]).fn \notin Ocalls
    BY DEF FailedCallsEnd
  <2>1. PICK f \in Stubs : frames[p] = <<Frame(f, "return")>>
    BY Kinds DEF RuntimeInv, Doing, StackOK, Waiting, InStub, Reporting, Exiting,
       Frame, Printing
  <2> QED BY <2>1, Kinds DEF Frame
<1> QED BY <1>1, RuntimeInvariant, PTL

\* With the threads inside, the token file still is whole when the last process
\* is gone, if nothing failed.
COROLLARY RuntimeKeepsToken == RuntimeSpec => []TokenSavedForNextRun
BY RuntimeIsHost, TokenAlwaysSaved, PTL
=============================================================================
