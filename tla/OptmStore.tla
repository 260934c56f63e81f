------------------------------ MODULE OptmStore ------------------------------
(***************************************************************************)
(* The file with the passwords and the speed dials (mod_optm.c), as the    *)
(* handlers of the master thread use it.  An edit reads the whole file,    *)
(* unlocks its partition, empties the file and writes it again.  The       *)
(* program may stop between any two steps, and every step may fail.        *)
(***************************************************************************)
EXTENDS Integers

CONSTANTS
    Words,      \* the words that the telephone sends, the super password among them
    Super       \* OPTM_SUPER_ADMIN_PWD

ASSUME SuperIsAWord == Super \in Words

VARIABLES
    admin,      \* ucAdmin
    present,    \* the file exists
    file,       \* its entries
    edit,       \* the edit in progress
    acked,      \* history: what the telephone was told is stored
    lost        \* history: the program stopped, or the write failed, with the file
                \* empty, or a file longer than the buffer was cut

storeVars == <<admin, present, file, edit, acked, lost>>

Entries == {"admin", "auth", "speed_dial"}
Unset == "unset"
Empty == "empty"
Values == Words \cup {Unset, Empty}
Blank == [e \in Entries |-> Unset]
NoEdit == [at |-> "none", entry |-> "admin", copy |-> Blank]

(* The types; a file that does not exist has no entries. *)
StoreTypeOK ==
    /\ {admin, present, lost} \subseteq BOOLEAN
    /\ {file, acked, edit.copy} \subseteq [Entries -> Values]
    /\ edit.entry \in Entries
    /\ edit.at \in {"none", "unlock", "open", "write", "lock"}
    /\ ~present => file = Blank

StoreInit ==
    /\ admin = FALSE /\ lost = FALSE /\ edit = NoEdit
    /\ \/ present = FALSE /\ file = Blank
       \/ present = TRUE /\ file \in [Entries -> {Unset, Empty, Super}]
    /\ acked = file

(* mod_optm_read_file: 0x02 without a file, 0x01 without the entry. *)
mod_optm_read_file(e) ==
    IF ~present THEN 2 ELSE IF file[e] = Unset THEN 1 ELSE 0

(* mod_optm_edit_file: the file is read, and its entry replaced or added.   *)
(* What does not fit into the 3096 bytes of the buffer is cut.              *)
mod_optm_edit_file(e, word) ==
    /\ \E cut \in SUBSET (Entries \ {e}) :
           edit' = [at |-> "unlock", entry |-> e,
                    copy |-> [x \in Entries |-> IF x = e THEN word ELSE IF x \in cut THEN Unset ELSE file[x]]]
    /\ UNCHANGED <<admin, present, file, acked, lost>>

Idle == edit.at = "none"

mod_optm_admin_login(word) ==
    /\ Idle
    /\ LET password == IF mod_optm_read_file("admin") # 0 \/ file["admin"] = Empty
                       THEN Super ELSE file["admin"]
       IN  admin' = (admin \/ word = password)
    /\ UNCHANGED <<present, file, edit, acked, lost>>

(* Also a protocol that starts afresh forgets the session. *)
mod_optm_admin_logout ==
    /\ Idle /\ admin' = FALSE
    /\ UNCHANGED <<present, file, edit, acked, lost>>

(* "the admin password is not set before then let it go thru" *)
mod_optm_admin_chg_pwd(word) ==
    /\ Idle
    /\ \/ admin
       \/ mod_optm_read_file("admin") = 1
       \/ mod_optm_read_file("admin") = 0 /\ file["admin"] = Empty
    /\ mod_optm_edit_file("admin", word)

mod_optm_alt_auth_pwd(word) == Idle /\ admin /\ mod_optm_edit_file("auth", word)
mod_optm_speed_dial_add(word) == Idle /\ admin /\ mod_optm_edit_file("speed_dial", word)
mod_optm_speed_dial_del == Idle /\ admin /\ mod_optm_edit_file("speed_dial", Empty)

(* Mutant: the file is opened before its partition is unlocked. *)
EditFails_opened ==
    /\ edit.at \in {"unlock", "open", "write"}
    /\ edit' = NoEdit
    /\ UNCHANGED <<admin, present, file, acked, lost>>

EditFails ==
    /\ edit.at \in {"unlock", "open"}
    /\ edit' = NoEdit
    /\ UNCHANGED <<admin, present, file, acked, lost>>

(* mod_optm_script with the unlock command, which ended well. *)
mod_optm_script ==
    /\ edit.at = "unlock"
    /\ edit' = [edit EXCEPT !.at = "open"]
    /\ UNCHANGED <<admin, present, file, acked, lost>>

(* A text, with the entry of the edit as it is to be. *)
Edited(text) == [text EXCEPT ![edit.entry] = edit.copy[edit.entry]]

(* fopen with "wb": from here on, what was cut is lost *)
EditOpen ==
    /\ edit.at = "open"
    /\ edit' = [edit EXCEPT !.at = "write"]
    /\ present' = TRUE /\ file' = Blank
    /\ lost' = (lost \/ edit.copy # Edited(file))
    /\ UNCHANGED <<admin, acked>>

(* fwrite, whose result nobody looks at *)
EditWrite(ok) ==
    /\ edit.at = "write"
    /\ edit' = [edit EXCEPT !.at = "lock"]
    /\ file' = IF ok THEN edit.copy ELSE file
    /\ lost' = (lost \/ ~ok)
    /\ UNCHANGED <<admin, present, acked>>

(* The edit is over; the change of the admin password opens a session. *)
EditDone ==
    /\ edit.at = "lock"
    /\ edit' = NoEdit
    /\ acked' = Edited(acked)
    /\ admin' = (admin \/ edit.entry = "admin")
    /\ UNCHANGED <<present, file, lost>>

(* The program stops; the telephone was told nothing of an edit that was    *)
(* written.                                                                 *)
Stops ==
    /\ admin' = FALSE /\ edit' = NoEdit
    /\ lost' = (lost \/ edit.at = "write")
    /\ acked' = IF edit.at = "lock" THEN Edited(acked) ELSE acked
    /\ UNCHANGED <<present, file>>

StoreNext ==
    \/ \E word \in Words :
           \/ mod_optm_admin_login(word) \/ mod_optm_admin_chg_pwd(word)
           \/ mod_optm_alt_auth_pwd(word) \/ mod_optm_speed_dial_add(word)
    \/ mod_optm_admin_logout \/ mod_optm_speed_dial_del
    \/ mod_optm_script \/ EditOpen \/ EditDone \/ EditFails
    \/ \E ok \in BOOLEAN : EditWrite(ok)
    \/ Stops

StoreSpec == StoreInit /\ [][StoreNext]_storeVars

(* What the telephone was told is stored is in the file, and nothing else   *)
(* of it has changed, whatever steps failed and wherever the program        *)
(* stopped; but in the one window where the file is empty, and but for a    *)
(* file that is longer than the buffer of the edit (mod_optm_edit_file).    *)
AckedIsStored == Idle /\ ~lost => file = acked
=============================================================================
