-------------------------- MODULE ReplicaSetProofs ---------------------------
(***************************************************************************)
(* Theorems about ReplicaSet for any number of clients, calls, outages and *)
(* faults, and for a secondary that is any number of writes behind: both   *)
(* servers stay sound across elections, and what delete_user may miss is   *)
(* what an old copy or a cut cursor hid from it.                           *)
(*                                                                         *)
(* The secondary only ever holds what the primary held before, so the      *)
(* argument follows the snapshots the secondary has and will have.  An     *)
(* election makes one of them the primary's data; everything else adds at  *)
(* most what the primary now has.                                          *)
(***************************************************************************)
EXTENDS ReplicaSet, MongoLifecycleProofs, SequenceTheorems

Snapshot == [users : SUBSET UserDoc, groups : SUBSET GroupDoc]

\* What the secondary has, and what it will have.
Snapshots == {[users |-> copyUsers, groups |-> copyGroups]}
               \cup {oplog[i] : i \in DOMAIN oplog}

SnapshotOK(s) ==
    /\ \A d \in s.users : ValidUserDoc(d)
    /\ \A d \in s.groups : validate_group_signature(d) /\ DistinctMembers(d)

\* The inductive invariant of ReplicasSound, with IInv.
SoundInv ==
    /\ copyUsers \subseteq UserDoc /\ copyGroups \subseteq GroupDoc
    /\ oplog \in Seq(Snapshot)
    /\ \A s \in Snapshots : SnapshotOK(s)

\* The secondary catches up with the primary in the end.
InSync == IF oplog = <<>> THEN copyGroups = groups
                          ELSE oplog[Len(oplog)].groups = groups

CursorOK == cursor \in [Client -> {"primary", "secondary", "lost"}]

\* A scan of the secondary that no old data reaches.
ScanOK(c) ==
    /\ DeletionOK(c)
    /\ pc[c] = "scan" /\ cursor[c] = "secondary" =>
         \A s \in Snapshots : s.groups = groups

\* The inductive invariant of OutUnlessBlind, on top of SoundInv.
BlindInv ==
    /\ CursorOK
    /\ InSync
    /\ \A c \in Client : pc[c] \in {"idle", "scan_open"} => loc[c].held = {}
    /\ faults = 0 =>
         /\ inflight = {}
         /\ NoncesOK(groups)
         /\ \A s \in Snapshots : NoncesOK(s.groups)
         /\ \A c \in Client : c \notin blind /\ rivals[c] = 0 => ScanOK(c)

-----------------------------------------------------------------------------
(* A round trip to another server than the primary *)

\* The call ends or goes on as ReturnKeysOK and GotoOK ask.
Ends(c) == \E s \in Statuses, k \in SUBSET SizedKey : ReturnKeys(c, s, k)

GoesOn(c) ==
    \E label \in Stages(call[c].op), local \in LocalState :
        /\ Goto(c, label, local)
        /\ label \in Labels \ Idle
        /\ \A d \in local.held : validate_group_signature(d)
        /\ label \in {"insert_group", "add_find", "add_update"}
             => local.key \in KeyCipher

\* What an action does to its client does not depend on the server.
LEMMA SecondaryControl ==
    /\ \A c, s, k : Secondary!ReturnKeys(c, s, k) <=> ReturnKeys(c, s, k)
    /\ \A c, s : Secondary!Return(c, s) <=> ReturnKeys(c, s, {})
    /\ \A c, l, v : Secondary!Goto(c, l, v) <=> Goto(c, l, v)
    /\ Secondary!Fault <=> Fault
    /\ Secondary!Read => UNCHANGED faults
    /\ Secondary!Unread => Fault
BY DEF Secondary!ReturnKeys, ReturnKeys, Secondary!Return, Secondary!Goto, Goto,
       Secondary!Fresh, Fresh, Secondary!Fault, Fault, Secondary!Read,
       Secondary!Unread

LEMMA SecondaryPure ==
    /\ \A x, n : Secondary!encrypt_data(x, n) = encrypt_data(x, n)
    /\ \A x : Secondary!decrypt_data(x) = decrypt_data(x)
    /\ \A x : Secondary!hash_name(x) = hash_name(x)
    /\ \A c : Secondary!nonce(c) = nonce(c)
    /\ \A d : Secondary!validate_group_signature(d) <=> validate_group_signature(d)
    /\ \A d : Secondary!ValidUserDoc(d) <=> ValidUserDoc(d)
BY DEF Secondary!encrypt_data, encrypt_data, Secondary!decrypt_data, decrypt_data,
       Secondary!hash_name, hash_name, Secondary!nonce, nonce,
       Secondary!validate_group_signature, validate_group_signature,
       Secondary!compute_group_signature, compute_group_signature,
       Secondary!group_hmac, group_hmac, Secondary!ValidUserDoc, ValidUserDoc,
       Secondary!compute_user_signature, compute_user_signature

LEMMA SecondaryReencrypt ==
    ASSUME IInv, SoundInv, NEW c \in Client, Secondary!reencrypt_user_key(c)
    PROVE  /\ pc[c] = "reencrypt" /\ (UNCHANGED faults \/ Fault)
           /\ Ends(c) \/ GoesOn(c)
<1>1. pc[c] = "reencrypt" /\ pc[c] \notin Idle
  BY DEF Secondary!reencrypt_user_key, Idle
<1>2. call[c].op \in {"add_user_to_group", "create_group"}
  BY <1>1, CallOfStage
<1> DEFINE key(d) == encrypt_data(decrypt_data(d.key), nonce(c))
           label == IF call[c].op = "create_group" THEN "insert_group" ELSE "add_find"
           local(d) == [loc[c] EXCEPT !.key = key(d)]
<1>3. /\ UNCHANGED faults \/ Fault
      /\ \/ \E d \in copyUsers : Goto(c, label, local(d))
         \/ ReturnKeys(c, "bad_signature", {}) \/ ReturnKeys(c, "no_user", {})
  BY SecondaryControl, SecondaryPure DEF Secondary!reencrypt_user_key
<1>4. CASE ReturnKeys(c, "bad_signature", {}) \/ ReturnKeys(c, "no_user", {})
  BY <1>1, <1>3, <1>4 DEF Ends, Statuses
<1>5. CASE \E d \in copyUsers : Goto(c, label, local(d))
  <2>1. PICK d \in copyUsers : Goto(c, label, local(d))
    BY <1>5
  <2>2. key(d) \in KeyCipher
    BY NonceOK DEF SoundInv, UserDoc, KeyCipher, encrypt_data, decrypt_data
  <2>3. local(d) \in LocalState /\ local(d).key = key(d) /\ local(d).held = loc[c].held
    BY <2>2, LocalType DEF LocalState
  <2>4. label \in Stages(call[c].op) /\ label \in Labels \ Idle
    BY <1>2 DEF Stages, Labels, Idle
  <2>5. \A h \in loc[c].held : validate_group_signature(h)
    BY DEF IInv, ClientsOK, LocalOK
  <2> HIDE DEF key, label, local
  <2>6. GoesOn(c)
    BY <2>1, <2>2, <2>3, <2>4, <2>5 DEF GoesOn
  <2> QED BY <1>1, <1>3, <2>6
<1> QED BY <1>3, <1>4, <1>5

LEMMA SecondaryReaders ==
    ASSUME NEW c,
           Secondary!is_user_part_of_group(c) \/ Secondary!get_keys_of_group(c)
    PROVE  /\ pc[c] \in {"is_member", "get_keys"} /\ (UNCHANGED faults \/ Fault)
           /\ Ends(c)
<1>1. CASE Secondary!is_user_part_of_group(c)
  BY <1>1, SecondaryControl DEF Secondary!is_user_part_of_group, Ends, Statuses
<1>2. CASE Secondary!get_keys_of_group(c)
  BY <1>2, SecondaryControl DEF Secondary!get_keys_of_group, Ends, Statuses
<1> QED BY <1>1, <1>2

LEMMA SecondaryScanOpen ==
    ASSUME IInv, SoundInv, NEW c \in Client, Secondary!scan_open(c)
    PROVE  /\ pc[c] = "scan_open" /\ (UNCHANGED faults \/ Fault)
           /\ Ends(c) \/ GoesOn(c)
<1>1. pc[c] = "scan_open" /\ pc[c] \notin Idle
  BY DEF Secondary!scan_open, Idle
<1>2. call[c].op = "delete_user"
  BY <1>1, CallOfStage
<1> DEFINE names == {d.encname : d \in copyGroups}
           local == [loc[c] EXCEPT !.unread = names]
<1>3. /\ UNCHANGED faults \/ Fault
      /\ Goto(c, "scan", local) \/ ReturnKeys(c, "empty_bulk", {})
  BY SecondaryControl DEF Secondary!scan_open
<1>4. CASE ReturnKeys(c, "empty_bulk", {})
  BY <1>1, <1>3, <1>4 DEF Ends, Statuses
<1>5. CASE Goto(c, "scan", local)
  <2>1. names \in SUBSET NameCipher
    BY DEF SoundInv, GroupDoc
  <2> HIDE DEF names
  <2>2. local \in LocalState /\ local.held = loc[c].held
    BY <2>1, LocalType DEF LocalState
  <2>3. "scan" \in Stages(call[c].op) /\ "scan" \in Labels \ Idle
    BY <1>2 DEF Stages, Labels, Idle
  <2>4. \A h \in loc[c].held : validate_group_signature(h)
    BY DEF IInv, ClientsOK, LocalOK
  <2> HIDE DEF local
  <2>5. GoesOn(c)
    BY <1>5, <2>2, <2>3, <2>4 DEF GoesOn
  <2> QED BY <1>1, <1>3, <2>5
<1> QED BY <1>3, <1>4, <1>5

LEMMA SecondaryScanNext ==
    ASSUME IInv, SoundInv, NEW c \in Client, Secondary!scan_next(c)
    PROVE  /\ pc[c] = "scan" /\ (UNCHANGED faults \/ Fault)
           /\ Ends(c) \/ GoesOn(c)
<1>1. pc[c] = "scan" /\ pc[c] \notin Idle
  BY DEF Secondary!scan_next, Idle
<1>2. call[c].op = "delete_user"
  BY <1>1, CallOfStage
<1> DEFINE local(d) == [loc[c] EXCEPT !.held = @ \cup {d},
                                      !.unread = @ \ {d.encname}]
<1>3. /\ UNCHANGED faults
      /\ \/ \E d \in copyGroups : /\ validate_group_signature(d)
                                  /\ Goto(c, "scan", local(d))
         \/ ReturnKeys(c, "bad_signature", {})
  BY SecondaryControl, SecondaryPure DEF Secondary!scan_next
<1>4. CASE ReturnKeys(c, "bad_signature", {})
  BY <1>1, <1>3, <1>4 DEF Ends, Statuses
<1>5. CASE \E d \in copyGroups : /\ validate_group_signature(d)
                                 /\ Goto(c, "scan", local(d))
  <2>1. PICK d \in copyGroups : /\ validate_group_signature(d)
                                /\ Goto(c, "scan", local(d))
    BY <1>5
  <2>2. d \in GroupDoc
    BY DEF SoundInv
  <2>3. local(d) \in LocalState /\ local(d).held = loc[c].held \cup {d}
    BY <2>2, LocalType DEF LocalState
  <2>4. "scan" \in Stages(call[c].op) /\ "scan" \in Labels \ Idle
    BY <1>2 DEF Stages, Labels, Idle
  <2>5. \A h \in loc[c].held \cup {d} : validate_group_signature(h)
    BY <2>1 DEF IInv, ClientsOK, LocalOK
  <2> HIDE DEF local
  <2>6. GoesOn(c)
    BY <2>1, <2>3, <2>4, <2>5 DEF GoesOn
  <2> QED BY <1>1, <1>3, <2>6
<1> QED BY <1>3, <1>4, <1>5

\* A cursor that ends, on the secondary or because its server is gone.
LEMMA CursorEnds ==
    ASSUME IInv, NEW c \in Client, Secondary!scan_end(c) \/ ScanLost(c)
    PROVE  /\ pc[c] = "scan" /\ (UNCHANGED faults \/ Fault)
           /\ Ends(c) \/ GoesOn(c)
<1>1. pc[c] = "scan" /\ pc[c] \notin Idle
  BY DEF Secondary!scan_end, ScanLost, Idle
<1>2. call[c].op = "delete_user"
  BY <1>1, CallOfStage
<1> DEFINE local == [loc[c] EXCEPT !.unread = {}]
<1>3. /\ UNCHANGED faults \/ Fault
      /\ Goto(c, "bulk", local) \/ ReturnKeys(c, "empty_bulk", {})
  BY SecondaryControl DEF Secondary!scan_end, ScanLost, Read, Return
<1>4. CASE ReturnKeys(c, "empty_bulk", {})
  BY <1>1, <1>3, <1>4 DEF Ends, Statuses
<1>5. CASE Goto(c, "bulk", local)
  <2>1. local \in LocalState /\ local.held = loc[c].held
    BY LocalType DEF LocalState
  <2>2. "bulk" \in Stages(call[c].op) /\ "bulk" \in Labels \ Idle
    BY <1>2 DEF Stages, Labels, Idle
  <2>3. \A h \in loc[c].held : validate_group_signature(h)
    BY DEF IInv, ClientsOK, LocalOK
  <2> HIDE DEF local
  <2>4. GoesOn(c)
    BY <1>5, <2>1, <2>2, <2>3 DEF GoesOn
  <2> QED BY <1>1, <1>3, <2>4
<1> QED BY <1>3, <1>4, <1>5

LEMMA WithoutPrimary ==
    ASSUME NEW c, NoPrimary(c)
    PROVE  pc[c] \notin Idle /\ UNCHANGED faults /\ Ends(c)
BY DEF NoPrimary, Read, Return, Ends, Statuses, Idle

LEMMA ElsewhereShape ==
    ASSUME IInv, SoundInv, NEW c \in Client, NotToPrimary(c)
    PROVE  /\ pc[c] \notin Idle /\ (UNCHANGED faults \/ Fault)
           /\ Ends(c) \/ GoesOn(c)
BY SecondaryReencrypt, SecondaryReaders, SecondaryScanOpen, SecondaryScanNext,
   CursorEnds, WithoutPrimary
   DEF NotToPrimary, PreferPrimary, PreferSecondary, ScanSecondary, Idle

LEMMA ElsewhereKeepsIInv ==
    ASSUME IInv, SoundInv, NEW c \in Client, NotToPrimary(c)
    PROVE  IInv'
<1>1. UNCHANGED <<users, groups, indexed, inflight, call, seq, rivals>>
  BY DEF NotToPrimary, server
<1>2. DataOK' /\ InflightOK'
  BY <1>1 DEF IInv, DataOK, InflightOK, SignaturesValid, UniqueMembers
<1>3. CountersOK'
  BY <1>1, ElsewhereShape, FaultOK DEF IInv, CountersOK
<1>4. call[c] # None
  BY ElsewhereShape, CallOfStage
<1>5. ClientsOK'
  <2>1. CASE Ends(c)
    BY <1>1, <2>1, ReturnKeysOK DEF Ends, IInv
  <2>2. CASE GoesOn(c)
    <3>1. PICK label \in Stages(call[c].op), local \in LocalState :
            /\ Goto(c, label, local)
            /\ label \in Labels \ Idle
            /\ \A d \in local.held : validate_group_signature(d)
            /\ label \in {"insert_group", "add_find", "add_update"}
                 => local.key \in KeyCipher
      BY <2>2 DEF GoesOn
    <3> QED BY <1>1, <1>4, <3>1, GotoOK DEF IInv
  <2> QED BY <2>1, <2>2, ElsewhereShape
<1> QED BY <1>2, <1>3, <1>5 DEF IInv

-----------------------------------------------------------------------------
(* The snapshots *)

LEMMA CopyIsSnapshot ==
    [users |-> copyUsers, groups |-> copyGroups] \in Snapshots
BY DEF Snapshots

\* A write of the primary becomes the last snapshot.
LEMMA LoggedSnapshots ==
    ASSUME oplog \in Seq(Snapshot), IInv', Logged, UNCHANGED copy
    PROVE  /\ oplog' \in Seq(Snapshot)
           /\ Snapshots' \subseteq
                Snapshots \cup {[users |-> users', groups |-> groups']}
<1> DEFINE new == [users |-> users', groups |-> groups']
<1>1. UNCHANGED <<copyUsers, copyGroups>>
  BY DEF copy
<1>2. CASE UNCHANGED <<users, groups>>
  BY <1>1, <1>2 DEF Logged, Snapshots
<1>3. CASE oplog' = Append(oplog, new)
  <2>1. new \in Snapshot
    BY DEF Snapshot, IInv, DataOK
  <2> HIDE DEF new
  <2>2. /\ oplog' \in Seq(Snapshot)
        /\ DOMAIN oplog = 1 .. Len(oplog) /\ Len(oplog) \in Nat
        /\ DOMAIN oplog' = 1 .. Len(oplog) + 1
        /\ \A i \in 1 .. Len(oplog) : oplog'[i] = oplog[i]
        /\ oplog'[Len(oplog) + 1] = new
    BY <1>3, <2>1, AppendProperties, LenProperties
  <2>3. \A i \in DOMAIN oplog' : oplog'[i] = new \/ i \in DOMAIN oplog
    BY <2>2
  <2>4. \A i \in DOMAIN oplog : oplog'[i] = oplog[i]
    BY <2>2
  <2>5. {oplog'[i] : i \in DOMAIN oplog'} \subseteq
          {oplog[i] : i \in DOMAIN oplog} \cup {new}
    BY <2>3, <2>4
  <2>6. Snapshots' \subseteq Snapshots \cup {new}
    BY <1>1, <2>5 DEF Snapshots
  <2> QED BY <2>2, <2>6 DEF new
<1> QED BY <1>2, <1>3 DEF Logged

\* The next snapshot becomes the secondary's data.
LEMMA ReplicateSnapshots ==
    ASSUME oplog \in Seq(Snapshot), Replicate
    PROVE  /\ oplog' \in Seq(Snapshot)
           /\ Snapshots' \subseteq Snapshots
           /\ Head(oplog) \in Snapshots
           /\ copyGroups' = Head(oplog).groups
           /\ copyUsers' = Head(oplog).users
           /\ Head(oplog) \in Snapshot
<1>1. /\ oplog # <<>> /\ oplog' = Tail(oplog)
      /\ copyUsers' = Head(oplog).users /\ copyGroups' = Head(oplog).groups
  BY DEF Replicate
<1>2. /\ oplog' \in Seq(Snapshot)
      /\ Len(oplog) \in Nat /\ Len(oplog) >= 1 /\ DOMAIN oplog = 1 .. Len(oplog)
      /\ DOMAIN oplog' = 1 .. Len(oplog) - 1
      /\ \A i \in 1 .. Len(oplog) - 1 : oplog'[i] = oplog[i + 1]
      /\ Head(oplog) = oplog[1] /\ Head(oplog) \in Snapshot
  BY <1>1, HeadTailProperties, LenProperties, EmptySeq
<1>3. \A i \in DOMAIN oplog' : i + 1 \in DOMAIN oplog /\ oplog'[i] = oplog[i + 1]
  BY <1>2
<1>4. {oplog'[i] : i \in DOMAIN oplog'} \subseteq {oplog[i] : i \in DOMAIN oplog}
  BY <1>3
<1>5. 1 \in DOMAIN oplog
  BY <1>2
<1>6. Head(oplog) \in Snapshots
  BY <1>2, <1>5 DEF Snapshots
<1>7. [users |-> copyUsers', groups |-> copyGroups'] = Head(oplog)
  BY <1>1, <1>2 DEF Snapshot
<1>8. Snapshots' \subseteq Snapshots
  BY <1>4, <1>6, <1>7 DEF Snapshots
<1> QED BY <1>1, <1>2, <1>6, <1>8

\* The new primary has a snapshot, and nothing is left to repeat.
LEMMA ElectSnapshots ==
    ASSUME SoundInv, Elect
    PROVE  /\ oplog' \in Seq(Snapshot)
           /\ Snapshots' = {[users |-> users', groups |-> groups']}
           /\ Snapshots' \subseteq Snapshots
           /\ users' \subseteq UserDoc /\ groups' \subseteq GroupDoc
<1>1. /\ users' = copyUsers /\ groups' = copyGroups /\ oplog' = <<>>
      /\ UNCHANGED <<copyUsers, copyGroups>>
  BY DEF Elect, copy
<1>2. DOMAIN oplog' = {} /\ oplog' \in Seq(Snapshot)
  BY <1>1, EmptySeq
<1>3. Snapshots' = {[users |-> copyUsers', groups |-> copyGroups']}
  BY <1>2 DEF Snapshots
<1> QED BY <1>1, <1>2, <1>3, CopyIsSnapshot DEF SoundInv

LEMMA PrimaryIsSound ==
    ASSUME IInv PROVE SnapshotOK([users |-> users, groups |-> groups])
BY DEF IInv, DataOK, SignaturesValid, UniqueMembers, SnapshotOK

LEMMA LoggedKeepsSound ==
    ASSUME SoundInv, IInv', Logged, UNCHANGED copy
    PROVE  SoundInv'
<1>1. /\ oplog' \in Seq(Snapshot)
      /\ Snapshots' \subseteq
           Snapshots \cup {[users |-> users', groups |-> groups']}
  BY LoggedSnapshots DEF SoundInv
<1>2. SnapshotOK([users |-> users', groups |-> groups'])
  BY DEF IInv, DataOK, SignaturesValid, UniqueMembers, SnapshotOK
<1>3. \A s \in Snapshots' : SnapshotOK(s)
  BY <1>1, <1>2 DEF SoundInv
<1>4. \A s \in Snapshots' : SnapshotOK(s)'
  BY <1>3 DEF SnapshotOK
<1> QED BY <1>1, <1>4 DEF SoundInv, copy

LEMMA SameKeepsSound ==
    ASSUME SoundInv, UNCHANGED <<copy, oplog>> PROVE SoundInv'
BY DEF SoundInv, Snapshots, SnapshotOK, copy

LEMMA ReplicateKeepsSound == ASSUME SoundInv, Replicate PROVE SoundInv'
<1>1. /\ oplog' \in Seq(Snapshot) /\ Snapshots' \subseteq Snapshots
      /\ Head(oplog) \in Snapshot
      /\ copyUsers' = Head(oplog).users /\ copyGroups' = Head(oplog).groups
  BY ReplicateSnapshots DEF SoundInv
<1>2. copyUsers' \subseteq UserDoc /\ copyGroups' \subseteq GroupDoc
  BY <1>1 DEF Snapshot
<1>3. \A s \in Snapshots' : SnapshotOK(s)'
  BY <1>1 DEF SoundInv, SnapshotOK
<1> QED BY <1>1, <1>2, <1>3 DEF SoundInv

LEMMA ElectKeepsIInv == ASSUME IInv, SoundInv, Elect PROVE IInv' /\ SoundInv'
<1>1. /\ oplog' \in Seq(Snapshot)
      /\ Snapshots' = {[users |-> users', groups |-> groups']}
      /\ Snapshots' \subseteq Snapshots
      /\ users' \subseteq UserDoc /\ groups' \subseteq GroupDoc
  BY ElectSnapshots
<1>2. SnapshotOK([users |-> users', groups |-> groups'])
  BY <1>1 DEF SoundInv
<1>3. DataOK'
  BY <1>1, <1>2
     DEF SnapshotOK, DataOK, SignaturesValid, UniqueMembers, Elect, IInv
<1>4. UNCHANGED <<inflight, pc, call, loc, seq, result, faults>>
  BY DEF Elect
<1>5. InflightOK' /\ ClientsOK'
  BY <1>4 DEF IInv, InflightOK, ClientsOK, LocalOK
<1>6. CountersOK'
  BY <1>4, WatchOK DEF Elect, IInv, CountersOK
<1>7. SoundInv'
  <2>1. \A s \in Snapshots' : SnapshotOK(s)'
    BY <1>1 DEF SoundInv, SnapshotOK
  <2> QED BY <1>1, <2>1 DEF SoundInv, Elect, copy
<1> QED BY <1>3, <1>5, <1>6, <1>7 DEF IInv

LEMMA StepDownKeepsIInv == ASSUME IInv, SoundInv, StepDown PROVE IInv' /\ SoundInv'
<1>1. /\ UNCHANGED <<users, groups, indexed, pc, call, loc, seq, result, faults,
                     rivals, copy, oplog>>
      /\ inflight' = {}
  BY DEF StepDown, data
<1> QED BY <1>1, SameKeepsSound
        DEF IInv, DataOK, InflightOK, ClientsOK, LocalOK, CountersOK,
            SignaturesValid, UniqueMembers

LEMMA ReplicaKeepsInv ==
    ASSUME IInv, SoundInv, [ReplicaNext]_replicaVars
    PROVE  IInv' /\ SoundInv'
<1>1. CASE \E c \in Client : ToPrimary(c)
  <2>1. IInv' /\ Logged /\ UNCHANGED copy
    BY <1>1, StepKeepsIInv DEF ToPrimary
  <2> QED BY <2>1, LoggedKeepsSound
<1>2. CASE \E c \in Client : NotToPrimary(c)
  BY <1>2, ElsewhereKeepsIInv, SameKeepsSound DEF NotToPrimary
<1>3. CASE \E c \in Client : (Invoke(c) \/ Crash(c)) /\ Local
  BY <1>3, InvokeKeepsIInv, CrashKeepsIInv, SameKeepsSound DEF Local
<1>4. CASE \E cmd \in inflight : Deliver(cmd) /\ Logged /\ UNCHANGED copy
  <2>1. IInv' /\ Logged /\ UNCHANGED copy
    BY <1>4, DeliverKeepsIInv
  <2> QED BY <2>1, LoggedKeepsSound
<1>5. CASE Replicate
  BY <1>5, StutterKeepsIInv, ReplicateKeepsSound DEF Replicate
<1>6. CASE Resume \/ (Done /\ Local) \/ UNCHANGED replicaVars
  <2>1. UNCHANGED <<vars, copy, oplog>>
    BY <1>6 DEF Resume, Done, Local, replicaVars
  <2> QED BY <2>1, StutterKeepsIInv, SameKeepsSound
<1> QED BY <1>1, <1>2, <1>3, <1>4, <1>5, <1>6, ElectKeepsIInv, StepDownKeepsIInv
        DEF ReplicaNext, CrashOf

-----------------------------------------------------------------------------
(* The first theorem *)

LEMMA InitSound == ASSUME ReplicaInit PROVE IInv /\ SoundInv
<1>1. IInv
  BY InitIInv DEF ReplicaInit
<1>2. /\ copyUsers = users /\ copyGroups = groups /\ oplog = <<>>
  BY DEF ReplicaInit
<1>3. DOMAIN oplog = {} /\ oplog \in Seq(Snapshot)
  BY <1>2, EmptySeq
<1>4. Snapshots = {[users |-> users, groups |-> groups]}
  BY <1>2, <1>3 DEF Snapshots
<1> QED BY <1>1, <1>2, <1>3, <1>4, PrimaryIsSound DEF SoundInv, IInv, DataOK

\* Through elections and rollback the clients keep to IInv of MongoDatabase, and
\* every copy the secondary has or will have consists of sound documents.
THEOREM ReplicaInvariant == ReplicaSpec => [](IInv /\ SoundInv)
BY InitSound, ReplicaKeepsInv, PTL DEF ReplicaSpec

\* Elections roll writes back, and updates computed from what was rolled back
\* still reach the new primary; yet both servers always have documents whose
\* signature covers their content, with no member twice.
THEOREM ReplicasAlwaysSound == ReplicaSpec => []ReplicasSound
<1>1. IInv /\ SoundInv => ReplicasSound
  <2> SUFFICES ASSUME IInv, SoundInv PROVE ReplicasSound
    OBVIOUS
  <2>1. SignaturesValid /\ UniqueMembers
    BY DEF IInv, DataOK
  <2>2. SnapshotOK([users |-> copyUsers, groups |-> copyGroups])
    BY CopyIsSnapshot DEF SoundInv
  <2>3. Secondary!SignaturesValid
    BY <2>2, SecondaryPure DEF SnapshotOK, Secondary!SignaturesValid
  <2>4. Secondary!UniqueMembers
    BY <2>2 DEF SnapshotOK, Secondary!UniqueMembers, DistinctMembers,
                Secondary!DistinctMembers
  <2> QED BY <2>1, <2>3, <2>4 DEF ReplicasSound
<1> QED BY <1>1, ReplicaInvariant, PTL

-----------------------------------------------------------------------------
(* The oplog ends with what the primary has *)

LEMMA LoggedKeepsInSync ==
    ASSUME oplog \in Seq(Snapshot), InSync, IInv', Logged, UNCHANGED copy
    PROVE  InSync'
<1> DEFINE new == [users |-> users', groups |-> groups']
<1>1. CASE UNCHANGED <<users, groups>>
  BY <1>1 DEF Logged, InSync, copy
<1>2. CASE oplog' = Append(oplog, new)
  <2>1. new \in Snapshot /\ new.groups = groups'
    BY DEF Snapshot, IInv, DataOK
  <2> HIDE DEF new
  <2>2. /\ Len(oplog) \in Nat
        /\ Len(oplog') = Len(oplog) + 1
        /\ oplog'[Len(oplog) + 1] = new
    BY <1>2, <2>1, AppendProperties, LenProperties
  <2>3. oplog' # <<>>
    BY <2>2, EmptySeq
  <2> QED BY <2>1, <2>2, <2>3 DEF InSync
<1> QED BY <1>1, <1>2 DEF Logged

LEMMA ReplicateKeepsInSync ==
    ASSUME oplog \in Seq(Snapshot), InSync, Replicate
    PROVE  InSync'
<1>1. /\ oplog # <<>> /\ oplog' = Tail(oplog) /\ groups' = groups
      /\ copyGroups' = Head(oplog).groups
  BY DEF Replicate, vars
<1>2. /\ Len(oplog) \in Nat /\ Len(oplog') = Len(oplog) - 1
      /\ \A i \in 1 .. Len(oplog) - 1 : oplog'[i] = oplog[i + 1]
      /\ Head(oplog) = oplog[1] /\ oplog' \in Seq(Snapshot)
  BY <1>1, HeadTailProperties, LenProperties
<1>3. oplog[Len(oplog)].groups = groups
  BY <1>1 DEF InSync
<1>4. CASE oplog' = <<>>
  <2>1. Len(oplog) = 1
    BY <1>2, <1>4, EmptySeq
  <2> QED BY <1>1, <1>2, <1>3, <1>4, <2>1 DEF InSync
<1>5. CASE oplog' # <<>>
  <2>1. Len(oplog') \in Nat \ {0}
    BY <1>2, <1>5, EmptySeq
  <2>2. oplog'[Len(oplog')] = oplog[Len(oplog)]
    BY <1>2, <2>1
  <2> QED BY <1>1, <1>3, <1>5, <2>2 DEF InSync
<1> QED BY <1>4, <1>5

LEMMA SameKeepsInSync ==
    ASSUME InSync, UNCHANGED <<groups, copy, oplog>> PROVE InSync'
BY DEF InSync, copy

-----------------------------------------------------------------------------
(* The nonces of the snapshots *)

\* A call that may still insert a group drew a nonce nobody has used.
CallsCounted ==
    \A c \in Client :
        /\ seq'[c] >= seq[c]
        /\ pc'[c] \in {"reencrypt", "insert_group"} =>
             pc[c] \in {"reencrypt", "insert_group"} \/ seq'[c] > seq[c]

LEMMA OldNonces ==
    ASSUME IInv, IInv', CallsCounted, NEW docs \in SUBSET GroupDoc, NoncesOK(docs)
    PROVE  NoncesOK(docs)'
<1>1. \A d \in docs : Number(d) \in Nat
  <2>1. \A d \in docs : d.encname.nonce \in Nonce
    BY DEF GroupDoc, NameCipher
  <2> QED BY <2>1 DEF Nonce, Number
<1>2. \A c \in Client : seq[c] \in Nat /\ seq'[c] \in Nat
  BY MongoConstants DEF IInv, CountersOK
<1> QED BY <1>1, <1>2 DEF CallsCounted, NoncesOK

LEMMA GroupsNonces ==
    ASSUME IInv, IInv', CallsCounted, NoncesOK(groups), UNCHANGED groups
    PROVE  NoncesOK(groups)'
<1>1. PICK docs \in SUBSET GroupDoc : docs = groups
  BY DEF IInv, DataOK
<1>2. NoncesOK(docs)'
  BY <1>1, OldNonces
<1> QED BY <1>1, <1>2 DEF NoncesOK

LEMMA SnapshotType ==
    ASSUME SoundInv, NEW s \in Snapshots PROVE s.groups \in SUBSET GroupDoc
<1>1. CASE s = [users |-> copyUsers, groups |-> copyGroups]
  BY <1>1 DEF SoundInv
<1>2. CASE \E i \in DOMAIN oplog : s = oplog[i]
  <2>1. s \in Snapshot
    BY <1>2, LenProperties, ElementOfSeq DEF SoundInv
  <2> QED BY <2>1 DEF Snapshot
<1> QED BY <1>1, <1>2 DEF Snapshots

LEMMA SnapshotNonces ==
    ASSUME IInv, IInv', SoundInv, CallsCounted,
           \A s \in Snapshots : NoncesOK(s.groups), NoncesOK(groups)',
           Snapshots' \subseteq
             Snapshots \cup {[users |-> users', groups |-> groups']}
    PROVE  \A s \in Snapshots' : NoncesOK(s.groups)'
<1>1. ASSUME NEW s \in Snapshots PROVE NoncesOK(s.groups)'
  <2>1. s.groups \in SUBSET GroupDoc /\ NoncesOK(s.groups)
    BY SnapshotType
  <2> DEFINE docs == s.groups
  <2> HIDE DEF docs
  <2>2. NoncesOK(docs)'
    BY <2>1, OldNonces DEF docs
  <2> QED BY <2>2 DEF docs
<1> QED BY <1>1

LEMMA StepCounted ==
    ASSUME IInv, NEW c \in Client, Step(c) PROVE CallsCounted
<1>1. UNCHANGED seq /\ \A o \in Client \ {c} : pc'[o] = pc[o]
  BY OthersUntouched DEF Step
<1>2. \A o \in Client : seq[o] \in Nat
  BY MongoConstants DEF IInv, CountersOK
<1> QED BY <1>1, <1>2, BeforeInsert DEF CallsCounted

\* Where a round trip leads that does not go to the primary.
LEMMA ElsewhereMoves ==
    ASSUME NEW c, NotToPrimary(c)
    PROVE  \/ \E s, k : ReturnKeys(c, s, k)
           \/ /\ pc[c] = "reencrypt"
              /\ \E l \in {"insert_group", "add_find"} : \E v : Goto(c, l, v)
           \/ /\ ScanSecondary(c) \/ ScanLost(c)
              /\ \E l \in {"scan", "bulk"} : \E v : Goto(c, l, v)
<1>1. CASE Secondary!is_user_part_of_group(c) \/ Secondary!get_keys_of_group(c)
  BY <1>1, SecondaryReaders DEF Ends
<1>2. CASE Secondary!reencrypt_user_key(c)
  BY <1>2, SecondaryControl DEF Secondary!reencrypt_user_key
<1>3. CASE ScanSecondary(c)
  BY <1>3, SecondaryControl
     DEF ScanSecondary, Secondary!scan_open, Secondary!scan_next,
         Secondary!scan_end
<1>4. CASE ScanLost(c)
  BY <1>4 DEF ScanLost, Return
<1>5. CASE NoPrimary(c)
  BY <1>5, WithoutPrimary DEF Ends
<1> QED BY <1>1, <1>2, <1>3, <1>4, <1>5
        DEF NotToPrimary, PreferPrimary, PreferSecondary

\* Elsewhere, too, only the re-encryption leads to an insertion.
LEMMA ElsewhereCounted ==
    ASSUME IInv, NEW c \in Client, NotToPrimary(c) PROVE CallsCounted
<1>1. \A s, k : ReturnKeys(c, s, k) => pc'[c] = "idle"
  BY DEF ReturnKeys, IInv, ClientsOK
<1>2. \A l, v : Goto(c, l, v) => pc'[c] = l
  BY GotoEffect
<1>3. pc'[c] \in {"reencrypt", "insert_group"} => pc[c] = "reencrypt"
  BY <1>1, <1>2, ElsewhereMoves
<1>4. \A o \in Client : seq'[o] = seq[o] /\ seq[o] \in Nat
  BY MongoConstants DEF IInv, CountersOK, NotToPrimary
<1>5. \A o \in Client \ {c} : pc'[o] = pc[o]
  BY ElsewhereMoves DEF ReturnKeys, Goto, IInv, ClientsOK
<1> QED BY <1>3, <1>4, <1>5 DEF CallsCounted

-----------------------------------------------------------------------------
(* A scan no old data reaches *)

\* A scan that a round trip to the primary leads to, or goes on with, is of the
\* primary.
LEMMA ScansPrimary ==
    ASSUME IInv, CursorOK, NEW c \in Client, ToPrimary(c), pc'[c] = "scan"
    PROVE  cursor'[c] = "primary"
<1>1. \A s, k : ReturnKeys(c, s, k) => pc'[c] = "idle"
  BY DEF ReturnKeys, IInv, ClientsOK
<1>2. \A l, v : Goto(c, l, v) => pc'[c] = l
  BY GotoEffect
<1>3. pc[c] \in {"scan_open", "scan"}
  BY <1>1, <1>2
     DEF ToPrimary, Step, create_user, reencrypt_user_key, create_group, add_find,
         add_update, remove_find, remove_update, Find, scan_open, scan_next,
         scan_end, bulk_update, delete_user, delete_all_users,
         delete_all_groups, init_users_index, init_groups_index,
         is_user_part_of_group, get_keys_of_group, ping, Unanswered, Retry,
         Return
<1> QED BY <1>3 DEF ToPrimary, CursorOK

\* The client whose round trip goes to the primary.
LEMMA OwnStepKeepsScan ==
    ASSUME IInv, NEW c \in Client, ToPrimary(c), NoncesOK(groups), faults' = 0,
           pc[c] = "scan_open" => loc[c].held = {}, CursorOK,
           pc[c] = "scan_open" \/ ScanOK(c)
    PROVE  ScanOK(c)'
<1>1. Step(c)
  BY DEF ToPrimary
<1>2. DeletionOK(c)
  BY DEF ScanOK, DeletionOK
<1>3. DeletionOK(c)'
  BY <1>1, <1>2, FaultCounts, OwnStepKeepsDeletion DEF NoncesOK
<1> QED BY <1>3, ScansPrimary DEF ScanOK

\* A client beside whom the primary's data changed.
LEMMA OthersKeepScan ==
    ASSUME IInv, NEW c \in Client, NEW actors, c \notin actors, Watch(actors),
           rivals[c] = 0, rivals'[c] = 0, ScanOK(c), pc'[c] = pc[c],
           call'[c] = call[c], loc'[c] = loc[c],
           cursor'[c] = "secondary" => cursor[c] = "secondary",
           Snapshots' \subseteq
             Snapshots \cup {[users |-> users', groups |-> groups']}
    PROVE  ScanOK(c)'
<1>1. DeletionOK(c)'
  BY OthersKeepDeletion DEF ScanOK
<1>2. CASE pc[c] = "scan" /\ cursor[c] = "secondary"
  BY <1>1, <1>2, Undisturbed DEF ScanOK
<1> QED BY <1>1, <1>2 DEF ScanOK

\* A client beside whom nothing changed, unless the secondary caught up.
LEMMA SameKeepsScan ==
    ASSUME NEW c, ScanOK(c), UNCHANGED groups, Snapshots' \subseteq Snapshots,
           pc'[c] = pc[c], call'[c] = call[c], loc'[c] = loc[c],
           cursor'[c] = "secondary" => cursor[c] = "secondary"
    PROVE  ScanOK(c)'
BY SameKeepsDeletion DEF ScanOK

\* A round trip that leaves the scan to others.
LEMMA AwayKeepsScan ==
    ASSUME NEW c, pc'[c] \notin {"scan", "bulk", "delete_user"} PROVE ScanOK(c)'
BY DEF ScanOK, DeletionOK

\* While the secondary has what the primary has, scanning it is scanning the
\* primary.
LEMMA EqualCopy ==
    ASSUME NEW c, copyGroups = groups, UNCHANGED server
    PROVE  /\ Secondary!scan_open(c) => scan_open(c)
           /\ Secondary!scan_next(c) => scan_next(c)
           /\ Secondary!scan_end(c) => scan_end(c)
BY SecondaryControl, SecondaryPure
   DEF Secondary!scan_open, scan_open, Secondary!scan_next, scan_next,
       Secondary!scan_end, scan_end, Secondary!Read, Read, Secondary!Unread,
       Unread, Return

\* The client whose round trip does not go to the primary.
LEMMA ElsewhereKeepsScan ==
    ASSUME IInv, SoundInv, InSync, NoncesOK(groups), CursorOK,
           NEW c \in Client, NotToPrimary(c), faults' = 0, c \notin blind',
           pc[c] = "scan_open" => loc[c].held = {},
           c \in blind \/ ScanOK(c)
    PROVE  ScanOK(c)'
<1>1. /\ UNCHANGED <<groups, copyGroups, oplog, call>> /\ UNCHANGED server
      /\ Snapshots' = Snapshots
  BY DEF NotToPrimary, copy, server, Snapshots
<1>2. pc'[c] \in {"scan", "bulk", "delete_user"} =>
        ScanSecondary(c) \/ ScanLost(c)
  <2>1. \A s, k : ReturnKeys(c, s, k) => pc'[c] = "idle"
    BY DEF ReturnKeys, IInv, ClientsOK
  <2>2. \A l, v : Goto(c, l, v) => pc'[c] = l
    BY GotoEffect
  <2> QED BY <2>1, <2>2, ElsewhereMoves
<1>3. CASE pc'[c] \notin {"scan", "bulk", "delete_user"}
  BY <1>3, AwayKeepsScan
<1>4. CASE ScanLost(c)
  BY <1>4 DEF ScanLost
<1>5. CASE Secondary!scan_open(c) /\ blind' = IF oplog = <<>> THEN blind \ {c}
                                                            ELSE blind \cup {c}
  <2>1. oplog = <<>> /\ copyGroups = groups
    BY <1>5 DEF InSync
  <2>2. DeletionOK(c)'
    BY <1>1, <1>5, <2>1, EqualCopy, ScanOpenKeeps DEF scan_open
  <2>3. DOMAIN oplog = {}
    BY <2>1, EmptySeq
  <2>4. Snapshots = {[users |-> copyUsers, groups |-> copyGroups]}
    BY <2>3 DEF Snapshots
  <2>5. \A s \in Snapshots' : s.groups = groups'
    BY <1>1, <2>1, <2>4
  <2> QED BY <2>2, <2>5 DEF ScanOK
<1>6. CASE /\ Secondary!scan_next(c) \/ Secondary!scan_end(c)
           /\ cursor[c] = "secondary" /\ UNCHANGED <<cursor, blind>>
  <2>1. pc[c] = "scan" /\ ScanOK(c)
    BY <1>6 DEF Secondary!scan_next, Secondary!scan_end
  <2>2. \A s \in Snapshots : s.groups = groups
    BY <1>6, <2>1 DEF ScanOK
  <2>3. copyGroups = groups
    BY <2>2, CopyIsSnapshot
  <2>4. scan_next(c) \/ scan_end(c)
    BY <1>1, <1>6, <2>3, EqualCopy
  <2>5. DeletionOK(c)'
    BY <1>1, <2>1, <2>4, FaultCounts, ScanNextKeeps, ScanEndKeeps
       DEF ScanOK, NoncesOK
  <2> QED BY <1>1, <2>2, <2>5 DEF ScanOK
<1> QED BY <1>2, <1>3, <1>4, <1>5, <1>6 DEF ScanSecondary

-----------------------------------------------------------------------------
(* The second invariant *)

\* A call that ends, wherever its last answer came from, holds no document.
LEMMA ElsewhereHeld ==
    ASSUME IInv, NEW c \in Client, NotToPrimary(c),
           pc'[c] \in {"idle", "scan_open"}
    PROVE  loc'[c].held = {}
<1>1. \A l, v : Goto(c, l, v) => pc'[c] = l
  BY GotoEffect
<1>2. \E s, k : ReturnKeys(c, s, k)
  BY <1>1, ElsewhereMoves
<1> QED BY <1>2, FreshOK DEF ReturnKeys, IInv, ClientsOK

LEMMA ElsewhereOthers ==
    ASSUME IInv, NEW c \in Client, NotToPrimary(c)
    PROVE  \A o \in Client \ {c} : pc'[o] = pc[o] /\ loc'[o] = loc[o]
BY ElsewhereMoves DEF ReturnKeys, Goto, IInv, ClientsOK

LEMMA ToPrimaryKeepsBlind ==
    ASSUME IInv, SoundInv, BlindInv, IInv', NEW c \in Client, ToPrimary(c)
    PROVE  BlindInv'
<1>1. Step(c) /\ Watch({c}) /\ UNCHANGED <<call, seq, copy>> /\ Logged
  BY DEF ToPrimary, Step
<1>2. CursorOK'
  BY DEF ToPrimary, BlindInv, CursorOK
<1>3. InSync' /\ Snapshots' \subseteq
                   Snapshots \cup {[users |-> users', groups |-> groups']}
  BY <1>1, LoggedKeepsInSync, LoggedSnapshots DEF SoundInv, BlindInv
<1>4. \A o \in Client \ {c} : pc'[o] = pc[o] /\ loc'[o] = loc[o]
  BY <1>1, OthersUntouched
<1>5. \A o \in Client : pc'[o] \in {"idle", "scan_open"} => loc'[o].held = {}
  BY <1>1, <1>4, HeldAtStart DEF BlindInv
<1>6. ASSUME faults' = 0
      PROVE  /\ inflight' = {}
             /\ NoncesOK(groups)'
             /\ \A s \in Snapshots' : NoncesOK(s.groups)'
             /\ \A o \in Client : o \notin blind' /\ rivals'[o] = 0 => ScanOK(o)'
  <2>1. /\ faults = 0 /\ inflight = {} /\ NoncesOK(groups)
        /\ \A s \in Snapshots : NoncesOK(s.groups)
        /\ \A o \in Client : o \notin blind /\ rivals[o] = 0 => ScanOK(o)
    BY <1>1, <1>6, FaultsStay DEF BlindInv
  <2>2. NoncesOK(groups)'
    BY <1>1, <2>1, StepKeepsNonces
  <2>3. \A s \in Snapshots' : NoncesOK(s.groups)'
    BY <1>1, <1>3, <2>1, <2>2, StepCounted, SnapshotNonces
  <2>4. \A o \in Client : rivals'[o] = 0 => rivals[o] = 0
    BY <1>1, RivalsGrow
  <2>5. c \notin blind' /\ rivals'[c] = 0 => ScanOK(c)'
    BY <1>6, <2>1, <2>4, OwnStepKeepsScan DEF ToPrimary, BlindInv
  <2>6. ASSUME NEW o \in Client \ {c}, o \notin blind', rivals'[o] = 0
        PROVE  ScanOK(o)'
    <3>1. o \notin blind /\ cursor'[o] = cursor[o]
      BY <2>6 DEF ToPrimary, BlindInv, CursorOK
    <3>2. rivals[o] = 0 /\ ScanOK(o)
      BY <2>1, <2>4, <2>6, <3>1
    <3> QED BY <1>1, <1>3, <1>4, <2>6, <3>1, <3>2, OthersKeepScan
  <2> QED BY <1>1, <1>6, <2>1, <2>2, <2>3, <2>5, <2>6, FaultCounts,
              NothingInflight
<1> QED BY <1>2, <1>3, <1>5, <1>6 DEF BlindInv

LEMMA ElsewhereKeepsBlind ==
    ASSUME IInv, SoundInv, BlindInv, IInv', NEW c \in Client, NotToPrimary(c)
    PROVE  BlindInv'
<1>1. /\ UNCHANGED <<users, groups, inflight, copy, oplog, call, rivals>>
      /\ Snapshots' = Snapshots
  BY DEF NotToPrimary, server, copy, Snapshots
<1>2. CursorOK' /\ \A o \in Client \ {c} : cursor'[o] = cursor[o]
  BY DEF NotToPrimary, ScanSecondary, ScanLost, NoPrimary, BlindInv, CursorOK
<1>3. InSync'
  BY <1>1, SameKeepsInSync DEF BlindInv
<1>4. \A o \in Client \ {c} : pc'[o] = pc[o] /\ loc'[o] = loc[o]
  BY ElsewhereOthers
<1>5. \A o \in Client : pc'[o] \in {"idle", "scan_open"} => loc'[o].held = {}
  BY <1>4, ElsewhereHeld DEF BlindInv
<1>6. ASSUME faults' = 0
      PROVE  /\ inflight' = {}
             /\ NoncesOK(groups)'
             /\ \A s \in Snapshots' : NoncesOK(s.groups)'
             /\ \A o \in Client : o \notin blind' /\ rivals'[o] = 0 => ScanOK(o)'
  <2>1. /\ faults = 0 /\ inflight = {} /\ NoncesOK(groups)
        /\ \A s \in Snapshots : NoncesOK(s.groups)
        /\ \A o \in Client : o \notin blind /\ rivals[o] = 0 => ScanOK(o)
    BY <1>6, ElsewhereShape, FaultCounts DEF BlindInv
  <2>2. NoncesOK(groups)'
    BY <1>1, <2>1, ElsewhereCounted, GroupsNonces
  <2>3. \A s \in Snapshots' : NoncesOK(s.groups)'
    BY <1>1, <2>1, <2>2, ElsewhereCounted, SnapshotNonces
  <2>4. c \notin blind' /\ rivals'[c] = 0 => ScanOK(c)'
    BY <1>1, <1>6, <2>1, ElsewhereKeepsScan DEF BlindInv
  <2>5. ASSUME NEW o \in Client \ {c}, o \notin blind', rivals'[o] = 0
        PROVE  ScanOK(o)'
    <3>1. o \notin blind
      BY <2>5 DEF NotToPrimary, ScanSecondary, ScanLost, NoPrimary
    <3> QED BY <1>1, <1>2, <1>4, <2>1, <2>5, <3>1, SameKeepsScan
  <2> QED BY <1>1, <2>1, <2>2, <2>3, <2>4, <2>5
<1> QED BY <1>2, <1>3, <1>5, <1>6 DEF BlindInv

LEMMA InvokeKeepsBlind ==
    ASSUME IInv, SoundInv, BlindInv, IInv', NEW c \in Client, Invoke(c), Local
    PROVE  BlindInv'
<1>1. /\ UNCHANGED <<users, groups, inflight, loc, faults, copy, oplog, cursor, blind>>
      /\ pc[c] = "idle" /\ seq'[c] = seq[c] + 1
      /\ \A o \in Client \ {c} : /\ pc'[o] = pc[o] /\ call'[o] = call[o]
                                /\ rivals'[o] = rivals[o] /\ seq'[o] = seq[o]
  BY DEF Invoke, Local, IInv, ClientsOK, CountersOK
<1>2. pc'[c] \notin {"idle", "scan", "bulk", "delete_user"}
  <2>1. PICK new \in Calls : pc' = [pc EXCEPT ![c] = First[new.op]]
    BY DEF Invoke
  <2>2. new.op \in AllOps
    BY DEF Calls, AllOps, GroupUserOps
  <2> QED BY <2>1, <2>2 DEF First, AllOps, GroupUserOps, IInv, ClientsOK
<1>3. Snapshots' = Snapshots
  BY <1>1 DEF Snapshots, copy
<1>4. CursorOK' /\ InSync'
  BY <1>1, SameKeepsInSync DEF BlindInv, CursorOK
<1>5. \A o \in Client : pc'[o] \in {"idle", "scan_open"} => loc'[o].held = {}
  BY <1>1 DEF BlindInv
<1>6. ScanOK(c)'
  BY <1>2, AwayKeepsScan
<1>7. \A o \in Client \ {c} : ScanOK(o) => ScanOK(o)'
  BY <1>1, <1>3, SameKeepsScan
<1>8. CallsCounted
  BY <1>1, MongoConstants DEF CallsCounted, IInv, CountersOK
<1>9. ASSUME faults = 0
      PROVE  NoncesOK(groups)' /\ \A s \in Snapshots' : NoncesOK(s.groups)'
  BY <1>1, <1>3, <1>8, <1>9, GroupsNonces, SnapshotNonces DEF BlindInv
<1> QED BY <1>1, <1>4, <1>5, <1>6, <1>7, <1>9 DEF BlindInv

LEMMA CrashKeepsBlind ==
    ASSUME IInv, BlindInv, NEW c \in Client, Crash(c), Local
    PROVE  BlindInv'
<1>1. faults' # 0
  BY FaultCounts DEF Crash
<1>2. \A o \in Client : pc'[o] \in {"idle", "scan_open"} => loc'[o].held = {}
  BY FreshOK DEF Crash, BlindInv, IInv, ClientsOK
<1>3. CursorOK' /\ InSync'
  BY SameKeepsInSync DEF Crash, Local, BlindInv, CursorOK
<1> QED BY <1>1, <1>2, <1>3 DEF BlindInv

LEMMA DeliverKeepsBlind ==
    ASSUME IInv, SoundInv, BlindInv, IInv', NEW cmd \in inflight, Deliver(cmd),
           Logged, UNCHANGED <<copy, cursor, blind>>
    PROVE  BlindInv'
<1>1. faults # 0 /\ UNCHANGED <<pc, loc, faults>>
  BY DEF Deliver, BlindInv
<1>2. InSync'
  BY LoggedKeepsInSync DEF SoundInv, BlindInv
<1> QED BY <1>1, <1>2 DEF BlindInv, CursorOK

\* The steps of the servers that leave the primary's data alone.
LEMMA ServersKeepBlind ==
    ASSUME IInv, SoundInv, BlindInv, IInv', InSync', CursorOK',
           UNCHANGED <<users, groups, pc, call, loc, seq, faults, rivals, blind>>,
           inflight' \subseteq inflight, Snapshots' \subseteq Snapshots,
           \A c \in Client : cursor'[c] = "secondary" => cursor[c] = "secondary"
    PROVE  BlindInv'
<1>1. \A c \in Client : ScanOK(c) => ScanOK(c)'
  BY SameKeepsScan
<1>2. CallsCounted
  BY MongoConstants DEF CallsCounted, IInv, CountersOK
<1>3. ASSUME faults = 0
      PROVE  NoncesOK(groups)' /\ \A s \in Snapshots' : NoncesOK(s.groups)'
  BY <1>2, <1>3, GroupsNonces, SnapshotNonces DEF BlindInv
<1> QED BY <1>1, <1>3 DEF BlindInv

LEMMA ReplicateKeepsBlind ==
    ASSUME IInv, SoundInv, BlindInv, IInv', Replicate PROVE BlindInv'
<1>1. UNCHANGED <<users, groups, inflight, pc, call, loc, seq, faults, rivals,
                  blind, cursor>>
  BY DEF Replicate, vars
<1>2. InSync' /\ Snapshots' \subseteq Snapshots /\ CursorOK'
  BY <1>1, ReplicateKeepsInSync, ReplicateSnapshots
     DEF SoundInv, BlindInv, CursorOK
<1> QED BY <1>1, <1>2, ServersKeepBlind

LEMMA StepDownKeepsBlind ==
    ASSUME IInv, SoundInv, BlindInv, IInv', StepDown PROVE BlindInv'
<1>1. /\ UNCHANGED <<users, groups, pc, call, loc, seq, faults, rivals, blind,
                     copy, oplog>>
      /\ inflight' = {}
      /\ cursor' = [c \in Client |->
                      IF cursor[c] = "primary" THEN "lost" ELSE cursor[c]]
  BY DEF StepDown, data
<1>2. InSync' /\ Snapshots' = Snapshots
  BY <1>1, SameKeepsInSync DEF BlindInv, Snapshots, copy
<1>3. CursorOK'
  BY <1>1 DEF BlindInv, CursorOK
<1> QED BY <1>1, <1>2, <1>3, ServersKeepBlind

\* A scan of the secondary goes on as a scan of the primary.
LEMMA ElectKeepsBlind ==
    ASSUME IInv, SoundInv, BlindInv, IInv', Elect PROVE BlindInv'
<1>1. /\ groups' = copyGroups /\ oplog' = <<>> /\ Watch({})
      /\ UNCHANGED <<inflight, pc, call, loc, seq, faults, blind, copyUsers, copyGroups>>
      /\ cursor' = [c \in Client |->
                      IF cursor[c] = "secondary" THEN "primary" ELSE cursor[c]]
  BY DEF Elect, copy
<1>2. CursorOK' /\ \A c \in Client : cursor'[c] # "secondary"
  BY <1>1 DEF BlindInv, CursorOK
<1>3. InSync'
  BY <1>1 DEF InSync
<1>4. Snapshots' \subseteq Snapshots
  BY ElectSnapshots
<1>5. CallsCounted
  BY <1>1, MongoConstants DEF CallsCounted, IInv, CountersOK
<1>6. ASSUME faults = 0
      PROVE  NoncesOK(groups)' /\ \A s \in Snapshots' : NoncesOK(s.groups)'
  <2>1. \A s \in Snapshots : NoncesOK(s.groups)
    BY <1>6 DEF BlindInv
  <2>2. NoncesOK(copyGroups) /\ copyGroups \in SUBSET GroupDoc
    BY <2>1, CopyIsSnapshot DEF SoundInv
  <2>3. PICK docs \in SUBSET GroupDoc : docs = copyGroups
    BY <2>2
  <2>4. NoncesOK(docs)'
    BY <1>5, <2>2, <2>3, OldNonces
  <2>5. NoncesOK(groups)'
    BY <1>1, <2>3, <2>4 DEF NoncesOK
  <2> QED BY <1>4, <1>5, <2>1, <2>5, SnapshotNonces
<1>7. ASSUME NEW c \in Client, ScanOK(c), rivals[c] = 0, rivals'[c] = 0
      PROVE  ScanOK(c)'
  <2>1. DeletionOK(c)'
    BY <1>1, <1>7, OthersKeepDeletion DEF ScanOK
  <2> QED BY <1>2, <2>1 DEF ScanOK
<1>8. \A c \in Client : rivals'[c] = 0 => rivals[c] = 0
  BY <1>1, RivalsGrow
<1> QED BY <1>1, <1>2, <1>3, <1>6, <1>7, <1>8 DEF BlindInv

LEMMA ReplicaKeepsBlind ==
    ASSUME IInv, SoundInv, BlindInv, IInv', [ReplicaNext]_replicaVars
    PROVE  BlindInv'
<1>1. CASE \E c \in Client : ToPrimary(c) \/ NotToPrimary(c)
  BY <1>1, ToPrimaryKeepsBlind, ElsewhereKeepsBlind
<1>2. CASE \E c \in Client : (Invoke(c) \/ Crash(c)) /\ Local
  BY <1>2, InvokeKeepsBlind, CrashKeepsBlind
<1>3. CASE \E cmd \in inflight : /\ Deliver(cmd) /\ Logged
                                 /\ UNCHANGED <<copy, cursor, blind>>
  BY <1>3, DeliverKeepsBlind
<1>4. CASE Resume \/ (Done /\ Local) \/ UNCHANGED replicaVars
  <2>1. UNCHANGED <<users, groups, inflight, pc, call, loc, seq, faults, rivals,
                    blind, cursor, copy, oplog>>
    BY <1>4 DEF Resume, Done, Local, replicaVars, vars
  <2>2. InSync' /\ CursorOK' /\ Snapshots' = Snapshots
    BY <2>1, SameKeepsInSync DEF BlindInv, CursorOK, Snapshots, copy
  <2> QED BY <2>1, <2>2, ServersKeepBlind
<1> QED BY <1>1, <1>2, <1>3, <1>4, ReplicateKeepsBlind, StepDownKeepsBlind,
           ElectKeepsBlind DEF ReplicaNext, CrashOf

LEMMA InitBlind == ASSUME ReplicaInit PROVE BlindInv
<1>1. /\ copyUsers = users /\ copyGroups = groups /\ oplog = <<>>
      /\ cursor = [c \in Client |-> "lost"] /\ inflight = {}
      /\ pc = [c \in Client |-> "idle"] /\ loc = [c \in Client |-> Fresh]
  BY DEF ReplicaInit, Init
<1>2. DOMAIN oplog = {}
  BY <1>1, EmptySeq
<1>3. Snapshots = {[users |-> users, groups |-> groups]}
  BY <1>1, <1>2 DEF Snapshots
<1>4. NoncesOK(groups)
  BY InitNonces DEF ReplicaInit
<1>5. InSync /\ CursorOK
  BY <1>1 DEF InSync, CursorOK
<1>6. \A c \in Client : ScanOK(c)
  BY <1>1 DEF ScanOK, DeletionOK
<1> QED BY <1>1, <1>3, <1>4, <1>5, <1>6, FreshOK DEF BlindInv

\* Whichever servers its scan reached, delete_user comes to the deletion of the
\* user with no membership left, unless the scan met an old copy or was cut, an
\* election or another client changed a group, or a round trip failed.
THEOREM DeletionMissesOnlyTheUnseen == ReplicaSpec => []OutUnlessBlind
<1>1. BlindInv => OutUnlessBlind
  BY DEF BlindInv, ScanOK, DeletionOK, Lacks, OutUnlessBlind
<1>2. IInv /\ SoundInv /\ BlindInv /\ [ReplicaNext]_replicaVars => BlindInv'
  BY ReplicaKeepsInv, ReplicaKeepsBlind
<1> QED BY <1>1, <1>2, InitBlind, ReplicaInvariant, PTL DEF ReplicaSpec

-----------------------------------------------------------------------------
(* While the primary stays up *)

\* The inductive invariant of LagReachesNoWrite, on top of BlindInv: until the
\* first outage no scan leaves the primary, and a client that is alone finds
\* there what it would find in a single server.
LagInv ==
    /\ Untouched
    /\ outages \in Nat
    /\ outages = 0 =>
         /\ up /\ blind = {}
         /\ \A c \in Client : /\ pc[c] = "scan" => cursor[c] = "primary"
                              /\ Solo(c) => SoloOK(c)

LEMMA ToPrimaryKeepsLag ==
    ASSUME IInv, BlindInv, LagInv, NEW c \in Client, ToPrimary(c) PROVE LagInv'
<1>1. Step(c) /\ UNCHANGED <<up, outages>>
  BY DEF ToPrimary
<1>2. Untouched'
  BY <1>1, StepKeepsUntouched DEF LagInv
<1>3. \A o \in Client \ {c} : pc'[o] = pc[o] /\ cursor'[o] = cursor[o]
  BY <1>1, OthersUntouched DEF ToPrimary, BlindInv, CursorOK
<1>4. pc'[c] = "scan" => cursor'[c] = "primary"
  BY ScansPrimary DEF BlindInv
<1>5. ASSUME outages = 0, NEW o \in Client, Solo(o)' PROVE SoloOK(o)'
  <2>1. o = c /\ Solo(c) /\ faults = 0 /\ faults' = 0
    BY <1>1, <1>5, NobodyElse DEF LagInv, Solo
  <2>2. SoloOK(c) /\ c \notin blind /\ rivals[c] = 0
    BY <1>5, <2>1 DEF LagInv, SoloOK
  <2>3. DeletionOK(c)
    BY <2>1, <2>2 DEF BlindInv, ScanOK
  <2> QED BY <1>1, <2>1, <2>2, <2>3, StepKeepsSolo
<1>6. blind = {} => blind' = {}
  BY DEF ToPrimary
<1> QED BY <1>1, <1>2, <1>3, <1>4, <1>5, <1>6 DEF LagInv

\* While there is a primary, only get_keys_of_group reads elsewhere, and it ends
\* with that read.
LEMMA OnlyKeysElsewhere ==
    ASSUME NEW c, NotToPrimary(c), up, pc[c] = "scan" => cursor[c] = "primary"
    PROVE  /\ UNCHANGED <<cursor, blind>>
           /\ \E s, k : ReturnKeys(c, s, k)
<1>1. CASE PreferSecondary(c) /\ UNCHANGED <<cursor, blind>>
  BY <1>1, SecondaryReaders DEF PreferSecondary, Ends
<1> QED BY <1>1 DEF NotToPrimary, PreferPrimary, ScanSecondary, ScanLost,
                    NoPrimary, Secondary!scan_next, Secondary!scan_end

\* The round trip between the two deletions of delete_all_data needs the primary.
LEMMA DeletesOnPrimary ==
    ASSUME NEW c, NotToPrimary(c), up, pc[c] = "scan" => cursor[c] = "primary"
    PROVE  pc[c] # "delete_groups"
BY SecondaryReaders
   DEF NotToPrimary, PreferPrimary, PreferSecondary, ScanSecondary, ScanLost,
       NoPrimary, Secondary!scan_next, Secondary!scan_end

LEMMA ElsewhereKeepsLag ==
    ASSUME IInv, SoundInv, BlindInv, LagInv, NEW c \in Client, NotToPrimary(c)
    PROVE  LagInv'
<1>1. /\ pc[c] # "idle" /\ (UNCHANGED faults \/ Fault)
      /\ UNCHANGED <<users, groups, call, seq, rivals, up, outages>>
  BY ElsewhereShape DEF NotToPrimary, server, Idle
<1>2. seq[c] # 0
  BY <1>1 DEF LagInv, Untouched
<1>3. \A o \in Client \ {c} : pc'[o] = pc[o] /\ result'[o] = result[o]
  BY ElsewhereMoves DEF ReturnKeys, Goto, IInv, ClientsOK
<1>4. Untouched'
  BY <1>1, <1>2, <1>3 DEF LagInv, Untouched
<1>5. ASSUME outages = 0
      PROVE  blind' = {} /\ UNCHANGED cursor /\ pc'[c] = "idle"
  <2>1. /\ UNCHANGED <<cursor, blind>>
        /\ \E s, k : ReturnKeys(c, s, k)
    BY <1>5, OnlyKeysElsewhere DEF LagInv
  <2> QED BY <1>5, <2>1 DEF LagInv, ReturnKeys, IInv, ClientsOK
<1>6. ASSUME outages = 0, NEW o \in Client, Solo(o)' PROVE SoloOK(o)'
  <2>1. faults' = 0 /\ faults = 0
    BY <1>1, <1>6, FaultCounts DEF Solo
  <2>2. o = c /\ Solo(c)
    BY <1>1, <1>2, <1>6, <2>1 DEF Solo
  <2>3. SoloOK(c)
    BY <1>6, <2>2 DEF LagInv
  <2>4. Members /\ rivals[c] = 0
    <3>1. pc[c] # "delete_groups"
      BY <1>6, DeletesOnPrimary DEF LagInv
    <3> QED BY <2>3, <3>1 DEF SoloOK
  <2>5. Members'
    BY <1>1, <2>4, SameMembers
  <2> QED BY <1>1, <1>5, <1>6, <2>2, <2>4, <2>5 DEF SoloOK
<1> QED BY <1>1, <1>3, <1>4, <1>5, <1>6 DEF LagInv

LEMMA InvokeKeepsLag ==
    ASSUME IInv, LagInv, NEW c \in Client, Invoke(c), Local PROVE LagInv'
<1>1. pc'[c] # "scan" /\ \A o \in Client \ {c} : pc'[o] = pc[o]
  <2>1. PICK new \in Calls : pc' = [pc EXCEPT ![c] = First[new.op]]
    BY DEF Invoke
  <2>2. new.op \in AllOps
    BY DEF Calls, AllOps, GroupUserOps
  <2> QED BY <2>1, <2>2 DEF First, AllOps, GroupUserOps, IInv, ClientsOK
<1>2. ASSUME outages = 0, NEW o \in Client, Solo(o)' PROVE SoloOK(o)'
  BY <1>2, NobodyElseCalls, InvokeKeepsSolo DEF LagInv
<1> QED BY <1>1, <1>2, InvokeKeepsUntouched DEF LagInv, Local

LEMMA CrashKeepsLag ==
    ASSUME IInv, LagInv, NEW c \in Client, Crash(c), Local PROVE LagInv'
<1>1. faults' # 0
  BY FaultCounts DEF Crash
<1>2. \A o \in Client : pc'[o] = "scan" => pc[o] = "scan"
  BY DEF Crash, IInv, ClientsOK
<1> QED BY <1>1, <1>2, CrashKeepsUntouched DEF LagInv, Local, Solo

LEMMA DeliverKeepsLag ==
    ASSUME BlindInv, LagInv, NEW cmd \in inflight, Deliver(cmd),
           UNCHANGED <<up, cursor, blind, outages>>
    PROVE  LagInv'
<1>1. faults # 0 /\ UNCHANGED <<pc, seq, result, faults>>
  BY DEF Deliver, BlindInv
<1> QED BY <1>1 DEF LagInv, Untouched, Solo

\* There was an outage when another server is elected or the same one returns.
LEMMA OutageKeepsLag ==
    ASSUME LagInv, StepDown \/ Resume \/ Elect PROVE LagInv'
<1>1. outages' # 0 /\ outages' \in Nat /\ UNCHANGED <<pc, seq, result>>
  BY DEF StepDown, Resume, Elect, LagInv, vars
<1> QED BY <1>1 DEF LagInv, Untouched

LEMMA SameKeepsLag ==
    ASSUME LagInv, UNCHANGED <<vars, up, cursor, blind, outages>> PROVE LagInv'
<1>1. \A c : SoloOK(c) => SoloOK(c)'
  BY SameMembers DEF SoloOK, Registered, vars
<1> QED BY <1>1 DEF LagInv, Untouched, Solo, vars

LEMMA ReplicaKeepsLag ==
    ASSUME IInv, SoundInv, BlindInv, LagInv, [ReplicaNext]_replicaVars
    PROVE  LagInv'
<1>1. CASE \E c \in Client : ToPrimary(c) \/ NotToPrimary(c)
  BY <1>1, ToPrimaryKeepsLag, ElsewhereKeepsLag
<1>2. CASE \E c \in Client : (Invoke(c) \/ Crash(c)) /\ Local
  BY <1>2, InvokeKeepsLag, CrashKeepsLag
<1>3. CASE \E cmd \in inflight : /\ Deliver(cmd)
                                 /\ UNCHANGED <<copy, up, cursor, blind, outages>>
  BY <1>3, DeliverKeepsLag
<1>4. CASE Replicate \/ (Done /\ Local) \/ UNCHANGED replicaVars
  BY <1>4, SameKeepsLag DEF Replicate, Done, Local, replicaVars
<1> QED BY <1>1, <1>2, <1>3, <1>4, OutageKeepsLag DEF ReplicaNext, CrashOf

LEMMA InitLag == ASSUME ReplicaInit PROVE LagInv
<1>1. LInv /\ outages = 0 /\ up /\ blind = {}
  BY InitLInv DEF ReplicaInit
<1>2. \A c \in Client : pc[c] = "idle"
  BY DEF ReplicaInit, Init
<1> QED BY <1>1, <1>2 DEF LInv, LagInv

\* However far the secondary is behind, and however many users and groups there
\* are: while the primary stays up and answers, no old copy reaches a write of a
\* client that is the only one to call, whose groups have stored users with their
\* own keys as members.
THEOREM LagHarmless == ReplicaSpec => []LagReachesNoWrite
<1>1. LagInv => LagReachesNoWrite
  <2> SUFFICES ASSUME LagInv, outages = 0, faults = 0,
                      NEW c \in Client, \A o \in Client \ {c} : seq[o] = 0,
                      \A o \in Client : pc[o] # "delete_groups"
               PROVE  \A d \in groups : \A e \in Range(d.users) : Known(e, d)
    BY DEF LagReachesNoWrite, MembersRegistered, Known, Registered
  <2>1. SoloOK(c)
    BY DEF LagInv, Solo
  <2> QED BY <2>1 DEF SoloOK, Members
<1>2. IInv /\ SoundInv /\ BlindInv /\ [ReplicaNext]_replicaVars => BlindInv'
  BY ReplicaKeepsInv, ReplicaKeepsBlind
<1>3. IInv /\ SoundInv /\ BlindInv /\ LagInv /\ [ReplicaNext]_replicaVars => LagInv'
  BY ReplicaKeepsLag
<1> QED BY <1>1, <1>2, <1>3, InitBlind, InitLag, ReplicaInvariant, PTL
        DEF ReplicaSpec
=============================================================================
