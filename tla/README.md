# Verification of mongo-sgx-client

The program runs a MongoDB client inside an SGX enclave and keeps, on an
untrusted MongoDB server, an access-control directory: users with their keys,
and groups of users. Names are stored as keyed hashes, keys and group names
encrypted, and every document carries an HMAC signature over its content. This
directory holds TLA+ modules translated from its source, TLC runs over small
instances, and theorems checked with TLAPS.

## 1. Inventory

| Component | Source | State | Operations | Modelled in |
|---|---|---|---|---|
| Documents and cryptography | `trusted/MongoDatabase.cpp` 581-686 | none (two keys compiled in) | `hash_name`, `encrypt_data`, `decrypt_data`, the user and group signatures | `MongoDocuments` |
| MongoDatabase | `trusted/MongoDatabase.cpp` 16-579, `MongoDatabase.h` | libmongoc client and two collection handles; the local variables of the current call | create/delete user, create group, add/remove member, membership query, keys of a group, delete all, indexes, ping | `MongoDatabase`; what it promises in `GroupDirectory` |
| MongoDB server | external (`README.md`, `mongodb-service.yml` deploy it) | collections `users` and `groups`, unique indexes, replicas | insert, update_one, bulk, delete, find, createIndexes; replication, elections | `MongoDatabase` (the `Execute` operators), `ReplicaSet` |
| Sample ecall | `trusted/mongoclient.cpp` | position in its script | one script of calls with exception handlers | `EnclaveSample` |
| Enclave host | `untrusted/sample.cpp` | the launch token file and buffer, the enclave id | `initialize_enclave`, `main` | `EnclaveHost` |
| OCALL wrappers | `trusted/my_wrappers.c`, `untrusted/my_wrappers_impl.cpp` | the call stack of a thread | sockets and time forwarded to the host, stubs; `vsscanf`, `sscanf` | `EnclaveRuntime`; `Vsscanf` |
| SSL wrappers | `trusted/ssl_wrappers.c`, `untrusted/ssl_wrappers_impl.cpp` | the same | clock, sockets, files, printing, `sgx_exit` | `EnclaveRuntime`; `Crash` of `MongoDatabase` |
| pthread stubs | `trusted/pthread.c` | none | calls that print or do nothing, `pthread_once` that runs every time | `EnclaveRuntime`, but for `pthread_once` |
| Address conversion | `trusted/inet_pton_ntop.c` | the caller's buffer | `inet_pton`, `inet_ntop` | `InetAddr`, `Conversions` |
| Headers, build files | `trusted/include`, `Makefile`, ... | none | none | not modelled |

How they interact: `main` creates the enclave and enters it with one ecall; the
ecall constructs one `MongoDatabase` and calls its operations in sequence; an
operation makes libmongoc calls, each a round trip to the server over sockets
that are OCALLs; a failed OCALL ends the process (`sgx_exit` is `assert(0)`).
Several enclaves share one server, and nothing else: all coordination goes
through single-document updates whose selector holds the signature that was
read (optimistic locking).

What is hard here: other clients act between any two round trips of a call; a
reply may be lost while its command is done, or is done later; the process may
end anywhere; there are no transactions over the two collections; errors of a
cursor are mostly not looked at; a retry loop decides by a count it misreads;
reads may come from a replica that is behind, and an election may undo what was
acknowledged; the path that reports a failed OCALL makes OCALLs itself.
`PROJECT.json` lists these hazards line by line.

What makes each component correct:
- *documents and operations*: a stored document's signature always covers its
  content; a member is listed once; memberships, users and keys agree; a call
  that throws "after multiple attempts" had real competition and should have done
  nothing (it may have: finding 1);
  every call ends; a deletion leaves no membership behind.
- *sample*: a run does what its script announces, whatever earlier runs left.
  What callers see is a directory of groups in which calls change what they
  name, once.
- *server with replicas*: both copies stay sound through elections and rollback;
  stale reads never reach a write unless there was an outage.
- *host*: SGX sees only whole tokens; no stream leaks; a token is saved in the
  end.
- *wrappers*: a failed OCALL ends the process, whatever fails meanwhile.
- *conversions*: a text is read as what it means, and what is written reads back.

## 2. Modules

    MongoDocuments            documents, symbolic hashes and signatures
      MongoDatabase           clients, server, faults; properties
        MongoDirectory        MongoDatabase implements GroupDirectory
          MCMongoDatabase     instances for TLC (7 configurations)
        ReplicaSet            read preferences, a secondary, elections
          MCReplicaSet
        EnclaveSample         the sample program over MongoDatabase
          MCEnclaveSample
    GroupDirectory            what a directory of groups promises its callers
    EnclaveHost               launch token and life of the enclave
      EnclaveRuntime          the wrappers inside the ecall
        MCEnclaveRuntime
    InetAddr                  inet_pton, inet_ntop (functions)
      Conversions             calls of the conversions, what their texts mean
        MCConversions
    Vsscanf                   vsscanf (functions), used by Conversions

and the theorems, each module on top of the one it is indented under:

    MongoDatabaseProofs       types, signatures, unique members; giving up
      MongoDirectoryProofs    the directory is implemented
      MongoLifecycleProofs    deletion; what one caller finds
        ReplicaSetProofs      the same over two servers
        EnclaveSampleProofs   a run that is cut; a run without failures,
                              statement by statement
    EnclaveProofs             the token file; the path that reports an error
    ConversionProofs          octets and words, IPv4 texts and addresses,
                              vsscanf and sscanf
      Inet6Proofs             the text of an IPv6 address, and that it reads back

**MongoDatabase.** A client's `pc` names the round trip its call does next,
`loc` its local variables (`key`: the re-encrypted key; `held`: the group
documents read and kept; `unread`: what the open cursor must still return;
`attempts`), `call` the operation and its arguments, `result` what it returned
or threw. Every round trip is an action, named for its function; a function
with one round trip is one action, the retry loops are two (`add_find` and
`add_update`, `remove_find` and `remove_update`), `delete_user` is `scan_open`,
`scan_next`, `scan_end`, `bulk_update`, `delete_user`. An action ends in
`Goto`, `Return`, or `Retry` (one more turn of the loop, or the throw after
it), and includes everything the code computes until its next round trip.

The server is `Execute(cmd, n)`: one write command, atomically, and the count
`n` it reports. It is external and modelled from the documented behaviour of
the commands the code sends: selectors, `$push`, `$pull`, `$set`, unique
indexes. `BsonIterInt64` is the read of `matchedCount`: libmongoc reports an
int32, `bson_iter_int64` answers 0 for anything but an int64, so with
`CountWidth = 32`, the real case, no update ever looks done to the loop.

Faults, at most `MaxFaults`: a read that fails looks like one that found
nothing, which is what `mongoc_cursor_next` returns, except in
`is_user_part_of_group`, which asks for the error; a write command whose answer
is lost makes the call throw and goes to `inflight`, from where the server may
`Deliver` it at any later time, or never; a process may `Crash` in any call,
before the commands of its next round trip (`Pending`) are sent or after, as the
OCALL that fails may be the one that receives the answer; then they are in
`inflight` too.

Abstractions: HMAC and AES are symbolic, so equal signatures mean equal content;
`hash_name` concatenates name and salt, and is only compared within one group;
the array `users` of a group is the sequence of its entries: `$push` appends
one, whatever is there, `$pull` keeps the order of the others, and the signature
covers that order; a cursor returns documents one by one as
they are at that time, each `encname` once, and all that were there throughout;
the bulk executes its updates one at a time in any order; libmongoc refuses an
empty bulk, so `delete_user` throws in a database without groups; in
`MongoDatabase` reads see the primary. The constructor and `init` take handles
and the destructor frees them; none changes state that is modelled. `rivals` is history: how often another
party changed a group a call works on.

**GroupDirectory** is the abstract specification: groups, pairs of a group and
a member, and the call each client makes. A step makes one change some running
call asked for (`Act`), or ends a call, with a change or without, with a status
that is then true (`Holds`); a call whose answer was lost, or whose process ended, leaves the changes it
asked for behind, and they may happen later (`Lose`, `ActLate`). With `AtOnce`
an add or a remove changes the directory only in the step in which it returns
normally. `MongoDirectory` states the refinement: groups and members are read
off the documents with the selectors of the code, late changes off the commands
on their way (those of a crashed call too), and `AtOnce` holds exactly when counts are read as intended. The
misread count is what separates the two: with it, a retry loop changes the
directory in one turn and returns, or throws, in a later one.

**ReplicaSet** composes the round trips of `MongoDatabase` with two servers. It
instantiates `MongoDatabase` a second time on the secondary's collections, so
the same read actions run on either. `PreferSecondary`, `PreferPrimary`,
`ScanSecondary` are the read preferences of lines 468, 387, 530 and 328;
everything else is `ToPrimary`, or fails while there is none (`NoPrimary`). The
primary's writes reach the secondary in order and any time later (`Replicate`).
After `StepDown` either the same server becomes primary again or the secondary
does, and then what it had not repeated is rolled back (`Elect`), since the code
sets no write concern and the default of the deployed server acknowledges on
the primary alone. A scan goes on at the server where it was opened; if that
goes down the cursor ends like one that returned everything. `mongodb-service.yml`
deploys three servers; the third adds to the others' vote and is left out, so
the secondary that is read is the one that may be elected.

**EnclaveSample** adds `line`, the statement each run is at. A client of
`MongoDatabase` is one run of the program. A statement is a call and where its
exception goes: to the handler after it, past the next statement (both
`create_user` share a try block), or nowhere, which ends the enclave
(`Terminate`). Runs follow one another (`Begin` waits until none is going on),
and begin on what the others left, late commands included.

**EnclaveHost** has one action per library call that touches the token file.
`fwrite` fills the stdio buffer and `fclose` writes it, so both are
`save_token`. SGX is external: a launch fails, keeps the token it got, or
replaces it; it never keeps the zero token. The computation of the path and
the `chdir` are left out.

**EnclaveRuntime** puts the wrappers inside the step `ecall` of `EnclaveHost`,
whose variables it leaves alone until the ecall ends. The libraries call
wrappers of the set `Used`, one at a time (one ecall is one thread); `frames` is
the stack of the functions of `src/` the thread is in, with a label for what
each does next. Wrappers differ only in their control and are grouped by it:
most print and call `sgx_exit` when their OCALL fails, `Unchecked` ones return
what is there, `PointerWrappers` also check a pointer: `getaddrinfo` the one the
host returned, `accept` the one of its caller (`CallersPointer`), which is in the
enclave, so that it always ends the process. Stubs print and return. `printf` is an OCALL that may fail as well. `Asserts` crashes
the enclave, on which the ecall returns an error and `main` aborts
(`EcallEnds`). OCALLs may fail any number of times: nothing bounds them.

**InetAddr**, **Vsscanf** are functions, translated loop by loop: a state
record, a step per character. Memory that nobody wrote holds a fixed character
(`fill`), so that a text without its NUL is visible; an int has `IntWidth` bits
and an overflow makes the result undefined. `vsscanf` returns its arguments and
`val_cnt`; `__isoc99_sscanf` (`my_wrappers.c:487`) and `sgx_sscanf`
(`ssl_wrappers.c:249`) return the same; `sscanf` (`my_wrappers.c:370`) has no
return statement, so its value is any of `Leftovers`. With another family than the two,
inet_pton returns -1 and inet_ntop NULL (`PtonOther`, `NtopOther`).
**Conversions** calls them one at a time, and defines what an address
text means without looking at the loops: fields between separators, with the
empty field of "::" standing for the missing zeros.

## 3. Runs

| Run | Instance | What it shows |
|---|---|---|
| `membership` | 2 clients, 2 users, 1 group, 2 calls each, 3 attempts, 1 fault | adds and removals race on one document: `TypeOK`, `SignaturesValid`, `UniqueMembers`, `GiveUpOnlyUnderContention`, `EveryCallReturns` under fairness, and the refinement `ImplementsDirectory` |
| `deletion` | 2 clients, 1 user, 2 groups, 2 calls each, 1 fault | `delete_user` races adds, creations and `delete_all_data`: `SignaturesValid`, `OutBeforeDeletion`, `ImplementsDirectory` |
| `lifecycle` | 1 client, any 5 calls of all operations, 2 users, 2 groups, 3 keys of which one has the wrong size, no index at first | the collections agree after every round trip but the first of delete_all_data: `MembersRegistered`, `KeysMatchUsers` |
| `designed` | 2 clients, 2 users, 1 group, 2 calls each of adds, removals, creations and queries, 1 fault, 64-bit counts | with counts read as intended, adds and removals happen at most once, in the step that returns: `ImplementsDirectory` |
| `gave_up_done` | 2 clients, 1 user, 1 group, 32-bit counts | violation of `GaveUpMeansNotDone`: finding 1 |
| `add_not_member` | 1 client, no group | violation of `AddReturnMeansMember`: finding 2 |
| `create_existing` | 1 client, 1 group | violation of `CreateExistingThrows`: finding 3 |
| `sample` | 2 runs of the script of 54 calls, 1 fault | `CleanRunReturns`, `CleanRunResult`, `UserErrorMeansEarlierFailure`, `SecondUserRefused`, `CrashLeavesNoOrphan` |
| `replicas` | 2 clients, 2 users, 1 group, 3 calls of `delete_user`, `add_user_to_group`, `get_keys_of_group` in all, 1 outage or 1 fault | `ReplicasSound`, `LagReachesNoWrite`, `OutUnlessBlind` |
| `host` | 2 processes, 2 faults outside, any number of failed OCALLs inside, one wrapper of each kind | `HostTypeOK`, `NoTornTokenPassed`, `StreamClosedAfterInit`, `TokenSavedForNextRun`, `ErrorPathBounded`, `FailedCallsEnd`, and `ErrorEndsProcess` under fairness |
| `conversions` | every IPv4 text of up to 5 fields of 7 kinds, every IPv6 text of up to 9 fields of 3 kinds and shorter ones with malformed ends, 256 and 6561 addresses, 4 buffer sizes, ints of 8 bits, 2 values a missing return leaves | `Pton4ReadsMeaning`, `Pton6ReadsMeaning`, `Ntop4ReadsBack`, `Ntop6ReadsBack`, `LongestRunLeftOut`, `ScanReadsBack` |
| `ntop_unterminated` | 256 IPv4 addresses, memory that was and was not zeroed | violation of `NtopWritesString`: finding 4 |

Bounds. Two clients are enough for every race on a document, as an update
commits or not by the one signature it names; two calls each let a client
undo what it did and let a late command of the first call meet the second. The
bound on attempts is 2 or 3 instead of 10, so that giving up happens within two
calls of the rival; the theorem covers 10. One fault lets each round trip fail
once. Five calls suffice to create two users, a group, add, and delete or
re-create. The sample uses the real 10 attempts. In `replicas` the clients are
symmetric, and the constraint `FewEvents` bounds calls, faults and outages
together: a deletion, the add that races it and one more call, with the
secondary any number of writes behind. In `host` two processes suffice to empty
and write the file under one another, and the theorems cover every number of
processes and wrappers. Nine IPv6 fields are one more than there are words;
every place of "::" and of an IPv4 part occurs among them. With 8 bits the
smallest and the largest int have as many digits as they need to overflow by one.

Fairness. `EveryCallReturns` assumes weak fairness of each client's round
trips: a libmongoc call blocks until it has an answer or its socket times out,
and the thread does nothing else. Nothing is assumed of `Invoke`, `Crash` and
`Deliver`. `ErrorEndsProcess` assumes it of a thread that is in a wrapper and
of the return of an ecall whose enclave crashed: an OCALL returns to its caller
and `main` does nothing but wait. The libraries need not call, and the ecall
need not return. Deadlock is checked in every run; `Done`, `AllOver` and `AllGone`
are the states in which everything has ended.

### Findings

1. `MongoDatabase.cpp:236` and `:310` read `matchedCount`, an int32, with
   `bson_iter_int64`: the loop does not see that its update matched, makes one
   turn too many each time, and throws "Unable to add user to group after
   multiple attempts" in the step that did it when that was its last attempt
   (`gave_up_done`).
2. `MongoDatabase.cpp:188`, "User is already in group; nothing to do", is also
   where an add to a group that does not exist, or a failed read, ends
   (`add_not_member`).
3. `mongoclient.cpp:61` announces an exception when a group is created again;
   `create_group` adds instead and returns (`create_existing`).
4. `inet_pton_ntop.c:213` copies an address without its final NUL, where line 173
   promises the presentation format and line 290 measures the result with
   `strlen`; it works only in memory that was zeroed (`ntop_unterminated`).

## 4. Proofs

Every theorem is about the safety part of its specification and holds for every
value of the constants its module's assumptions allow: any number of clients,
users, groups, calls, attempts and faults. Where one needs more, it says so, and
so does this list. Most invariants are relative to the ones before them: the
step from `Inv` to `Inv'` uses the invariants already proved on both sides.

**Documents** (`MongoDatabaseProofs`). `TypeCorrect`, `SignaturesAlwaysValid`
and `MembersAlwaysUnique` follow from one inductive invariant `IInv`. That stored
signatures are valid is not inductive: a command is executed long after it was
computed, so `IInv` also says of every document a client holds that its
signature is valid (`ClientsOK`), of every command on its way that its new
signature is the one of the document its old signature stands for, plus or
minus the member (`InflightOK`), and of everything stored that it is well formed
and has each member once (`DataOK`). The step that matters: a `$push` matches
only a document with the old signature; signatures are injective, so that
document has the entries the new signature was computed from, in their order.
A second `$push` of the same entry would append it again; the selector's "$ne" and
the signature, which the first one replaced, stop it. No index is assumed.

**Retry loops** (`MongoDatabaseProofs`). `GiveUpNeedsRivals` counts turns: a call
that has used k attempts has seen at least k changes by others, or k - 1 and its
own update done while the count was misread (`TurnOK` in `RInv`); with a unique
index the document a turn read is the one its update must match unless another
changed it.

**Directory** (`MongoDirectoryProofs`). `DirectoryImplemented` is the refinement
`ImplementsDirectory`, assuming a unique index on the groups from the start:
with two documents of one name a remove would return while the other still
lists the user. Every write command makes the one change `ChangeOf` names or
none; a call sends only commands its operation asks for; a late one is among
`late`; and the status a call returns is read off what its last round trip
matched. `Addressed` strengthens `IInv` for that: a command names a user by the
salt of the group it is addressed to.

**Deletion and one caller** (`MongoLifecycleProofs`).
- `DeletionLeavesNoMember`: delete_user reaches the deletion of the user with
  no membership left, unless another client changed a group or a round trip
  failed. `DInv` follows the scan (each group is held or its `encname` still to be
  returned), the bulk (each is held or lacks the user), and needs that no two
  documents share an `encname`: each nonce is used by one call, once
  (`NoncesOK`).
- `MembersStayRegistered` assumes one client and no faults, which is what the
  `lifecycle` run checks. Its invariant `LInv` does not: it speaks of a client that
  has been the only caller while nothing failed (`Solo`), and is reused where others
  come later (`OneCaller`). Between any two round trips of such a client every member
  of a group is a stored user with that user's key, except between the two deletions
  of delete_all_data, and a key it holds is the one of the stored user. That a user
  about to be deleted is in no group comes from `DInv`.
- `KeysReadBack`: once both indexes exist, which may be created on the way, the
  keys get_keys_of_group returns are those of the stored users (`KeysInv`).

**Replicas** (`ReplicaSetProofs`). The secondary holds, and will hold, only what
the primary held before, so the invariants speak of these snapshots.
`ReplicasAlwaysSound`: `SoundInv` says every snapshot is of sound documents; with
`IInv` an election, which makes a snapshot the primary's data, keeps `IInv`
(`ReplicaInvariant`), whatever commands computed before it arrive after it.
`DeletionMissesOnlyTheUnseen`: `BlindInv` is the argument of `DInv` for a scan that
may read the secondary, as long as that is up to date. `LagHarmless`: until the
first outage and failure every read that decides on a write is answered by the
primary, so `LagInv` carries the one-caller argument over.

**Sample** (`EnclaveSampleProofs`), for any number of runs
one after the other and any database before the first. The sample adds nothing to
what `MongoDatabase` does, so everything above holds in it.
- `CutRunLeavesNoOrphan`: if the first failure of all is that the first run's
  process ends, after statement 1, every member is registered, for any number
  of faults that may follow. It is `LInv` at the moment of the crash, kept by
  `CutInv`: the others have not begun, and the commands the run may have sent last
  are harmless whenever they are executed: all of them write members who are stored
  or take members out (`Harmless`), or the one deletes a user who is in no group
  (`Departure`).
- `RunsFollowed`: `RunsInv` says of a run without failures, which began without
  commands of earlier ones on their way, what is stored after each statement:
  which users (`UsersAfter`), groups and memberships (`GroupsAfter`), indexes
  (`IndexesAfter`), and how far the round trips of its current call have come
  (`CallOK`). The run is alone, so each statement of the script, a fixed list, is
  followed from what the one before left. `CleanRunsReturn`, `UsersAreNew`,
  `UserAgainIsRefused` and `CleanRunsLeaveUser2` are read off it. They assume
  `MaxAttempts > 1` (the code has 10): with misread counts an update needs a
  second turn to return.

**Host and wrappers** (`EnclaveProofs`).
- `HostTypeCorrect`, `TornTokenNeverPassed`, `StreamAlwaysClosed`,
  `TokenAlwaysSaved` are about `HostSpec`, for any number of processes and faults.
  `HostInv` adds to the type what the stream, the buffer and the call of a
  process say of each other (`ProcessOK`), and that without a fault the file has
  a token or some process is still going to save one (`SaveOK`): whoever empties
  the file is such a process.
- A step inside an ecall leaves the host's variables alone, so what holds of the
  host holds with the threads inside (`RuntimeKeepsToken`).
- `ErrorPathAlwaysBounded` and `FailedCallsAlwaysEnd` are about `RuntimeSpec`, for
  any set of wrappers and any number of failed OCALLs. They follow from an invariant that lists the shapes a stack may have: a wrapper alone, a
  stub under a `printf`, or a wrapper under `sgx_exit`, itself alone or under a
  `printf`; and the labels each may have there.

**Conversions** (`ConversionProofs`, `Inet6Proofs`), assuming that the addresses
are octets and words, the buffer sizes numbers and the fields of IPv4 texts
without the dot that ends them (`QuadsAssumption`, `WordsAssumption`,
`SizesAssumption`, `Texts4Assumption`), that an int has bits
(`IntWidthAssumption`), and that a printed text can be read at all: it has an
int or a letter for every directive, no digit behind an int, and ends in a
character that no item expects (`ScansAssumption`). A call is one step, so the
work is in the loops; `OctetsFit` and `WordsFit` need no assumption.
- `OctetsFit`: `inet_pton4`, whatever the text, its characters and its length,
  never stores a fifth octet or a number above 255. Each turn keeps it, and
  `Counting` makes that every turn.
- `WordsFit`: `inet_pton6` never stores a ninth word or one above 65535, and the
  move of the words behind "::" stays inside its buffer. `WordsOK` says of a state
  how large the word being read may be after each number of digits (so the
  comparison with 0xffff never decides) and that "::" is not behind the words
  there are; `Pton6StepFits` has one lemma for each kind of character.
- `AddressesReadBack`: the three lengths a number may have give its digits, the
  digits of a number are read back as the number (`ReadOctet`), the four are read
  one after the other where the text has them (`HoldsParts`), and in memory that
  was zeroed a string ends after the last (`CopiedText`).

- `QuadTextsRead`: inet_pton4 reads every text as what it means, of any number of
  fields of any length. `FieldReads` follows the loop over one field: while its
  characters are those of an octet the state holds their number, and at the
  first that is not the loop is left (`Begun`, `StepFails`), for good
  (`GoneForGood`). `FieldTurn` and `DotTurn` do the same over the fields: before
  the k-th the state waits with the octets of the others, if there are at most
  three and each is an octet, and otherwise the loop was left
  (`BeforeField`, `AfterField`). `JoinedFields` finds the fields in the text.
- `ScansReadBack`: vsscanf reads what was printed and counts it, for every width of
  int, every format and every text. The loop over the items keeps the ints and
  letters of the items done, their number, and what the others printed as the text
  that is left; for
  one int, the loop over its digits never leaves the range of an int, as it
  counts downwards and negates what is positive at the end.
- `Addresses6ReadBack`: the text of an IPv6 address is one piece per word, where
  the pieces of the best run are the "::" and nothing (`Piece`, `Pieced`,
  `TextOfWords`), and `PiecesHold` says where each lies in the text. `ReadUpto` is
  what inet_pton6 has read before a piece: the words so far without the run
  (`Kept`), and the place of "::" once it is behind. `ReadNext` takes it over one
  piece and `PiecesRead` over all, with `WordReads` for a hexadecimal number and
  `QuadReadsBack` for an IPv4 part; `ExpandsBack` puts the zeros back where the
  run was (`RunOfWords`). A text without an
  IPv4 part (an address whose first five words are not all zero has none) is
  copied with its NUL, so what the memory held does no harm; an IPv4 part is
  written without one and ends where the memory was zero.
- `LongestRunWritten`: the text of an address is `TextOf6`, which is defined by its
  runs of zeros and its fields and says nothing of the loops. The eight turns of the
  first loop keep `RunsOK`: the best run is the first of the longest that ended, the
  current one ends at the word before; so the run it ends with is the one `TextOf6`
  chooses (`BestIsFirst`). The pieces of the second loop are then put together in
  three parts: up to the run the text is that of the fields (`TextBeforeRun`), in it
  a colon is written and nothing else (`TextInRun`), and behind it follow the other
  colon and the fields that are left (`TextAfterRun`), or the IPv4 part
  (`TextBeforeQuad`).

Induction theorems that take an operator as parameter cannot be used. A loop over
a bounded range is followed by `Counting` instead, which speaks of the set of
the turns reached so far, and the digits of a number by `StrongCounting`; a
recursive definition is first shown to have a value (`LoopExists`).

Checked by TLC only:
- `EveryCallReturns` and `ErrorEndsProcess`: liveness under fairness is out of the
  prover's reach.
- `Pton6ReadsMeaning`: what an IPv6 text means is itself computed by folds over
  rows of fields, on both sides of "::" and of the dots of an IPv4 part, and
  the loop has read half of a text before it can know.
- the refinement of the directory without the index from the start, with
  `init_indexes` creating it meanwhile: no run has it either.

## 5. Plan

1. Done: the documents and operations, the sample, the host; the directory they
   implement; replicas; the wrappers; the conversions. Proved: every safety
   property the runs check but `Pton6ReadsMeaning`.
2. Left to prove: that one. What it needs is mostly there: `JoinedFields` for rows
   of fields, `WordReads` for one field, `QuadTextsRead` for the IPv4 part and
   `WordsFit`; and `Addresses6ReadBack` for the texts that inet_ntop writes.

## 6. Not modelled

- The headers of libmongoc, libbson and libc under `trusted/include`, which are
  most of the lines in the source tree, and the type headers: no logic of this
  program. The build and deployment files.
- libmongoc, OpenSSL and SGX themselves are binaries or packages, not source;
  they appear through what the code calls and how it uses the answers.
- Wrong answers the code gives openly: a read that failed looks like one that found
  nothing (the directory's promises leave such answers out), a scan that was cut or
  a group that changed under a deletion leaves a member behind
  (`OutBeforeDeletion` and `OutUnlessBlind` leave these out), an acknowledged update
  may be rolled back. `PROJECT.json` says at each of these hazards which part of it a
  property covers.
- `pthread_once`, and the mutual exclusion that `pthread_mutex_lock` does not
  give: the sample enters the enclave with one thread, the code states that it is
  not thread-safe (`pthread.c:19`), and the sections the locks guard are in
  libmongoc.
- The bytes and values that sockets return, the native copies of `sendmsg` and
  `getsockopt`, the formatting of texts (`printf` in the enclave drops its
  arguments, `ssl_wrappers.c:203`), random numbers, the tables of character
  classes.
- The cells `inet_ntop6` pads beyond the text (`inet_pton_ntop.c:307`).
- TLS; the strength of the cryptography; memory that is not released (selectors,
  bulk operations and cursors on some paths of `MongoDatabase.cpp`); the wording
  of what is printed.
- A network partition with two primaries.
