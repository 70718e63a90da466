--------------------------- MODULE MongoDocuments ---------------------------
(***************************************************************************)
(* The documents MongoDatabase.cpp stores in the collections "users" and   *)
(* "groups" of a MongoDB server, and the pure functions it computes over   *)
(* them: keyed hashes, AES-GCM encryption and the document signatures.     *)
(*                                                                         *)
(* Cryptography is symbolic: an HMAC is the tuple of what it covers, so it *)
(* is injective and only who holds the key computes it; a ciphertext is    *)
(* its plaintext and the nonce the encryption drew.  hash_name             *)
(* concatenates its two inputs, so equal hashes may come from different    *)
(* (user, group) pairs; here they never do.  Salted names are only ever    *)
(* compared within one group, where the concatenation is injective.        *)
(***************************************************************************)
EXTENDS Integers, FiniteSets, Sequences, Functions

CONSTANTS
    Client,    \* processes that each own one MongoDatabase object
    User,      \* user names
    Group,     \* group names
    Key,       \* user keys
    SizedKey,  \* the keys that are KEY_SIZE bytes long
    Past       \* the author of what an earlier run of the program stored

ASSUME DocumentConstants == SizedKey \subseteq Key /\ Past \notin Client

\* A call draws its nonces from its own number; the two encryptions of one
\* create_group differ in what they encrypt.
Nonce == (Client \cup {Past}) \X Nat

KeyCipher  == [plain : Key, nonce : Nonce]
NameCipher == [plain : Group, nonce : Nonce]

encrypt_data(data, nonce) == [plain |-> data, nonce |-> nonce]
decrypt_data(cipher)      == cipher.plain

hash_name(name)              == <<name>>
salted_hash_name(name, salt) == <<name, salt>>

HashedUser   == User \X Group
HashedGroup  == {hash_name(g) : g \in Group}

-----------------------------------------------------------------------------
(* User documents *)

compute_user_signature(name, key) == <<name, key>>

UserDoc == [name : {hash_name(u) : u \in User}, key : KeyCipher,
            signature : {hash_name(u) : u \in User} \X KeyCipher]

NewUserDoc(u, key) ==
    LET name == hash_name(u)
    IN  [name |-> name, key |-> key,
         signature |-> compute_user_signature(name, key)]

ValidUserDoc(d) == d.signature = compute_user_signature(d.name, d.key)

-----------------------------------------------------------------------------
(* Group documents *)

Entry == [name : HashedUser, key : KeyCipher]

GroupSignature == HashedGroup \X NameCipher \X Seq(Entry)

GroupDoc == [name : HashedGroup, encname : NameCipher, users : Seq(Entry),
             signature : GroupSignature]

\* The entries that stay, in their order, when those of one user are left out:
\* what $pull does on the server and what the signature of a removal skips.
Without(entries, name) ==
    LET kept[i \in 0 .. Len(entries)] ==
          IF i = 0 THEN <<>>
          ELSE IF entries[i].name = name THEN kept[i - 1]
          ELSE Append(kept[i - 1], entries[i])
    IN  kept[Len(entries)]

group_hmac(name, encname, entries) == <<name, encname, entries>>

compute_group_signature(d) == group_hmac(d.name, d.encname, d.users)

\* additional_is_add: the entry is hashed after the ones of the document.
signature_with(d, entry) == group_hmac(d.name, d.encname, Append(d.users, entry))

\* not additional_is_add: the entries of that user are skipped.
signature_without(d, name) ==
    group_hmac(d.name, d.encname, Without(d.users, name))

validate_group_signature(d) == d.signature = compute_group_signature(d)

NewGroupDoc(g, encname, entry) ==
    LET name == hash_name(g)
    IN  [name |-> name, encname |-> encname, users |-> <<entry>>,
         signature |-> group_hmac(name, encname, <<entry>>)]

HasUser(d, name) == \E e \in Range(d.users) : e.name = name

\* No user is in the array twice, not even with the same entry.
DistinctMembers(d) ==
    \A i, j \in DOMAIN d.users : d.users[i].name = d.users[j].name => i = j

-----------------------------------------------------------------------------
(* What the server does to a document an update matched *)

\* {$push: {users: entry}, $set: {signature: signature}}
Pushed(d, entry, signature) ==
    [d EXCEPT !.users = Append(@, entry), !.signature = signature]

\* {$pull: {users: {name: name}}, $set: {signature: signature}}
Pulled(d, name, signature) ==
    [d EXCEPT !.users = Without(@, name), !.signature = signature]
=============================================================================
