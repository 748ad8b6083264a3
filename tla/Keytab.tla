------------------------------- MODULE Keytab -------------------------------
(***************************************************************************)
(* The keytab of a node in the operator's project (spire/src/keys.py): it  *)
(* is kept encrypted; to rotate its key, or to delete old ones, spire      *)
(* decrypts it into a temporary directory, lets k5srvutil work on it,      *)
(* encrypts the result into a file beside the old one, and replaces that.  *)
(*                                                                         *)
(* Keys are numbered; a keytab is a set of keys.  k5srvutil authenticates  *)
(* with the keytab itself.  gpg does not overwrite a file.  Any step may   *)
(* fail, and the command may be interrupted anywhere.                      *)
(***************************************************************************)
EXTENDS Naturals, FiniteSets

CONSTANTS
    NoFile, HalfFile,  \* a file that does not exist, and one that is not whole
    MaxKeys,           \* bound: keys that the KDC ever has for the node
    MaxAccidents       \* bound: failures and interruptions

VARIABLES
    accidents,
    kdc,        \* the key that the KDC has for the node
    source,     \* keytab.<node>.crypt
    target,     \* keytab.<node>.crypt.tmp
    temp,       \* the decrypted keytab
    op,         \* "rotate" or "delold"
    doing,      \* where the command is
    newest      \* history: the newest key that was ever in a whole file of the project

vars == <<accidents, kdc, source, target, temp, op, doing, newest>>

Accident == accidents < MaxAccidents /\ accidents' = accidents + 1

\* An exception ends the command, and the temporary directory is deleted.
Abort == doing' = "idle" /\ temp' = NoFile /\ op' = "none"

IsKeytab(file) == file \notin {NoFile, HalfFile}
Newest(keytab) == CHOOSE k \in keytab : \A j \in keytab : j <= k

\* A whole file with this keytab is in the project.
Stored(keytab) == newest' = IF Newest(keytab) > newest THEN Newest(keytab) ELSE newest
-----------------------------------------------------------------------------
\* import_keytab: the operator has got a keytab with the current key.
ImportKeytab ==
    /\ doing = "idle"
    /\ source = NoFile
    /\ \/ source' = {kdc} /\ Stored({kdc}) /\ UNCHANGED accidents
       \/ Accident /\ source' = HalfFile /\ UNCHANGED newest
    /\ UNCHANGED <<kdc, target, temp, op, doing>>

\* keytab_op: the first step.
DecryptKeytab(o) ==
    /\ doing = "idle"
    /\ \/ /\ IsKeytab(source)
          /\ temp' = source /\ op' = o /\ doing' = "change"
          /\ UNCHANGED accidents
       \/ /\ IF IsKeytab(source) THEN Accident ELSE UNCHANGED accidents
          /\ Abort
    /\ UNCHANGED <<kdc, source, target, newest>>

\* k5srvutil change: the KDC makes a new key, which is added to the keytab.
ChangeKey ==
    /\ doing = "change" /\ op = "rotate"
    /\ \/ /\ kdc \in temp /\ kdc < MaxKeys
          /\ kdc' = kdc + 1
          /\ temp' = temp \cup {kdc'} /\ doing' = "encrypt" /\ UNCHANGED <<accidents, op>>
       \/ /\ kdc \in temp /\ kdc < MaxKeys
          /\ Accident /\ kdc' \in {kdc, kdc + 1}
          /\ Abort
       \/ /\ ~(kdc \in temp /\ kdc < MaxKeys)
          /\ Abort /\ UNCHANGED <<accidents, kdc>>
    /\ UNCHANGED <<source, target, newest>>

\* k5srvutil delold keeps the newest key.
DeleteOldKeys ==
    /\ doing = "change" /\ op = "delold"
    /\ \/ temp' = {Newest(temp)} /\ doing' = "encrypt" /\ UNCHANGED <<accidents, op>>
       \/ Accident /\ Abort
    /\ UNCHANGED <<kdc, source, target, newest>>

\* Mutant: the old keytab is removed before the new one is encrypted.
EncryptAfterRemoval ==
    /\ doing = "encrypt"
    /\ source' = NoFile
    /\ \/ /\ target = NoFile
          /\ target' = temp /\ Stored(temp) /\ temp' = NoFile /\ doing' = "remove"
          /\ UNCHANGED <<accidents, op>>
       \/ /\ target # NoFile \/ accidents < MaxAccidents
          /\ accidents' = IF target # NoFile THEN accidents ELSE accidents + 1
          /\ Abort /\ UNCHANGED <<target, newest>>
    /\ UNCHANGED kdc

\* gpg refuses to write to a file that is there, from an earlier command.
Encrypt ==
    /\ doing = "encrypt"
    /\ \/ /\ target = NoFile
          /\ target' = temp /\ Stored(temp) /\ temp' = NoFile /\ doing' = "remove"
          /\ UNCHANGED <<accidents, op>>
       \/ /\ target # NoFile
          /\ Abort /\ UNCHANGED <<accidents, target, newest>>
       \/ /\ Accident /\ target = NoFile
          /\ target' \in {NoFile, HalfFile}
          /\ Abort /\ UNCHANGED newest
    /\ UNCHANGED <<kdc, source>>

RemoveSource ==
    /\ doing = "remove"
    /\ source' = NoFile /\ doing' = "rename"
    /\ UNCHANGED <<accidents, kdc, target, temp, op, newest>>

RenameTarget ==
    /\ doing = "rename"
    /\ source' = target /\ target' = NoFile
    /\ Abort
    /\ UNCHANGED <<accidents, kdc, newest>>

\* The operator interrupts the command, or the machine stops.
Interrupt ==
    /\ Accident /\ doing # "idle"
    /\ Abort
    /\ UNCHANGED <<kdc, source, target, newest>>

Init ==
    /\ accidents = 0 /\ kdc = 1
    /\ source = NoFile /\ target = NoFile /\ temp = NoFile
    /\ op = "none" /\ doing = "idle" /\ newest = 0

Next ==
    \/ ImportKeytab
    \/ \E o \in {"rotate", "delold"} : DecryptKeytab(o)
    \/ ChangeKey \/ DeleteOldKeys \/ Encrypt \/ RemoveSource \/ RenameTarget
    \/ Interrupt

Spec == Init /\ [][Next]_vars
-----------------------------------------------------------------------------
(* Properties *)

Keytabs == (SUBSET (1..MaxKeys)) \ {{}}

TypeOK ==
    /\ accidents \in 0..MaxAccidents /\ kdc \in 1..MaxKeys /\ newest \in 0..MaxKeys
    /\ \A file \in {source, target, temp} : IsKeytab(file) => file \in Keytabs
    /\ op \in {"none", "rotate", "delold"}
    /\ doing \in {"idle", "change", "encrypt", "remove", "rename"}

Holds(file, k) == IsKeytab(file) /\ k \in file

\* The newest key that the project ever had is never lost: at every moment, after
\* any failures and interruptions and with whatever they left behind, it is in the
\* keytab or in the file beside it.  And as long as nothing fails, that is the key
\* of the KDC whenever no command runs.
KeytabKept ==
    /\ newest > 0 => Holds(source, newest) \/ Holds(target, newest)
    /\ accidents = 0 /\ doing = "idle" /\ newest > 0 => Holds(source, kdc)
=============================================================================
