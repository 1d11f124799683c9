---------------------------- MODULE IdentityStore ----------------------------
(***************************************************************************)
(* The identity of a process, and the encrypted file it is kept in.        *)
(* (uniconn-py/uniconn/secure: identity.py, store.py)                      *)
(*                                                                         *)
(* A file is a prefix of what some save wrote: save_identity truncates the *)
(* file and writes it anew, so a crash leaves as much as has been written. *)
(* Key derivation and AEAD are taken as perfect: decryption succeeds iff   *)
(* the ciphertext is complete and the password is the one it was sealed    *)
(* with.                                                                   *)
(***************************************************************************)
EXTENDS Naturals

CONSTANTS
    Identities,   \* key pairs that may be generated
    Passwords,
    HeaderSize,   \* magic, version, salt and nonce
    PlainSize,    \* secret key and public key
    TagSize,
    MaxCrashes,   \* bound: crashes of the process
    None          \* no identity, no file

\* A file with plain bytes of plaintext, of which size bytes are there.
Files == [magic : BOOLEAN, version : {1, 2}, id : Identities, password : Passwords,
          plain : {PlainSize, PlainSize + 1},
          size : 0 .. (HeaderSize + PlainSize + 1 + TagSize)]

ASSUME StoreAssumption ==
    /\ HeaderSize \in Nat \ {0} /\ PlainSize \in Nat \ {0} /\ TagSize \in Nat \ {0}
    /\ MaxCrashes \in Nat
    /\ None \notin Identities \cup Files

VARIABLES
    file,      \* what the path holds
    saving,    \* save_identity is writing the file
    ident,     \* the identity the process has in memory
    made,      \* identities generated so far
    saved,     \* identity and password of the latest save that returned
    torn,      \* a later save was cut off by a crash
    crashes    \* crashes so far

storeVars == <<file, saving, ident, made, saved, torn, crashes>>

FullSize(f) == HeaderSize + f.plain + TagSize

StoreTypeOK ==
    /\ file \in Files \cup {None} /\ (file # None => file.size <= FullSize(file))
    /\ saving \in BOOLEAN /\ torn \in BOOLEAN /\ crashes \in 0 .. MaxCrashes
    /\ ident \in Identities \cup {None} /\ made \subseteq Identities
    /\ saved \in (Identities \X Passwords) \cup {None}

\* A complete file of another program, of another version, or with other keys.
Foreign ==
    {f \in Files : /\ f.size = FullSize(f)
                   /\ <<f.magic, f.version, f.plain>> \in
                         {<<FALSE, 1, PlainSize>>, <<TRUE, 2, PlainSize>>, <<TRUE, 1, PlainSize + 1>>}}

StoreInit ==
    /\ file \in {None} \cup Foreign
    /\ saving = FALSE /\ ident = None /\ made = {}
    /\ saved = None /\ torn = FALSE /\ crashes = 0

-----------------------------------------------------------------------------
\* Identity.generate
Generate(i) ==
    /\ ~saving /\ ident = None /\ i \notin made
    /\ ident' = i /\ made' = made \cup {i}
    /\ UNCHANGED <<file, saving, saved, torn, crashes>>

\* save_identity: seal the keys, open the file and truncate it.
SaveBegins(pw) ==
    /\ ~saving /\ ident # None
    /\ saving' = TRUE
    /\ file' = [magic |-> TRUE, version |-> 1, id |-> ident, password |-> pw,
                plain |-> PlainSize, size |-> 0]
    /\ UNCHANGED <<ident, made, saved, torn, crashes>>

SaveWrites ==
    /\ saving
    /\ \E n \in (file.size + 1) .. FullSize(file) : file' = [file EXCEPT !.size = n]
    /\ UNCHANGED <<saving, ident, made, saved, torn, crashes>>

\* Mutant of SaveReturns: not everything has been written.
SaveReturnsEarly ==
    /\ saving /\ file.size > 0
    /\ saving' = FALSE
    /\ saved' = <<file.id, file.password>> /\ torn' = FALSE
    /\ UNCHANGED <<file, ident, made, crashes>>

SaveReturns ==
    /\ saving /\ file.size = FullSize(file)
    /\ saving' = FALSE
    /\ saved' = <<file.id, file.password>> /\ torn' = FALSE
    /\ UNCHANGED <<file, ident, made, crashes>>

\* The process dies, and starts again without an identity.
Crash ==
    /\ crashes < MaxCrashes
    /\ crashes' = crashes + 1
    /\ ident' = None /\ saving' = FALSE
    /\ torn' = (torn \/ saving)
    /\ UNCHANGED <<file, made, saved>>

-----------------------------------------------------------------------------
(* load_identity *)

\* AEAD: what is taken for ciphertext and tag is all of it, sealed with the password.
Decrypts(f, pw) == f.size = FullSize(f) /\ f.password = pw

\* The checks in their order; the file loads iff all of them pass.
Loads(f, pw) ==
    /\ f # None
    /\ f.size >= HeaderSize
    /\ f.magic /\ f.version = 1
    /\ f.size - HeaderSize >= TagSize
    /\ Decrypts(f, pw)
    /\ f.plain = PlainSize

Load(pw) ==
    /\ ~saving /\ ident = None
    /\ Loads(file, pw)
    /\ ident' = file.id
    /\ UNCHANGED <<file, saving, made, saved, torn, crashes>>

StoreNext ==
    \/ \E i \in Identities : Generate(i)
    \/ \E pw \in Passwords : SaveBegins(pw) \/ Load(pw)
    \/ SaveWrites \/ SaveReturns

-----------------------------------------------------------------------------
\* An identity whose save has returned survives every crash: it loads with the
\* password it was saved with and with no other, until a later save begins.  That
\* save loses it if it is cut off, since the file is overwritten in place.
Durable ==
    saved # None /\ ~saving /\ ~torn =>
        /\ \A pw \in Passwords : Loads(file, pw) <=> pw = saved[2]
        /\ file.id = saved[1]
=============================================================================
