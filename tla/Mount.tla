-------------------------------- MODULE Mount --------------------------------
(***************************************************************************)
(* The shell's commands for the card.  "sdinit" and "readsd" call the SD   *)
(* driver; "mount" is pf_mount (fat/src/pff.c) over the block device       *)
(* (fat/src/diskio.c) over the driver.  The card may be exchanged at any   *)
(* moment.  disk_readp reads the whole block again for the few bytes it is *)
(* asked for, so that one mount looks at a sector up to four times.        *)
(***************************************************************************)
EXTENDS SdCard

CONSTANTS
    Contents,       \* what may be on a card: [Block -> Sectors]
    NoPartition     \* an empty first entry of the partition table

Sectors == [ signature : BOOLEAN,       \* ends with 0xAA55
             fat       : BOOLEAN,       \* says "FA" where a FAT16 boot record does
             clusters  : BOOLEAN,       \* its numbers give a FAT16 cluster count
             partition : Block \cup {NoPartition} ]
Erased == [signature |-> FALSE, fat |-> FALSE, clusters |-> FALSE,
           partition |-> NoPartition]

ASSUME MountAssumption == Contents \subseteq [Block -> Sectors]

VARIABLES
    content,        \* what is on the card
    sector,         \* what sd_block_buffer holds
    mpc,            \* where pf_mount is; "out" when it is not called
    whole,          \* check_fs is asked about sector 0
    bsect,
    mounted,        \* FatFs is set, or was never and is NULL
    mount_result,
    exchanged,      \* history: the card was taken out since the mount began
    misread         \* history: check_fs's second read has failed in the mount

mountVars == <<content, sector, mpc, whole, bsect, mounted, mount_result, exchanged, misread>>
pf_vars == <<mpc, whole, bsect, mounted, mount_result>>
allVars == <<sdVars, mountVars>>

MountInit ==
    /\ SdInit
    /\ content \in Contents
    /\ sector = Erased
    /\ mpc = "out"
    /\ whole = TRUE
    /\ bsect = 0
    /\ mounted = FALSE
    /\ mount_result = "NONE"
    /\ exchanged = FALSE
    /\ misread = FALSE

-----------------------------------------------------------------------------
InsertCard ==
    /\ Insert
    /\ content' \in Contents
    /\ UNCHANGED <<sector, pf_vars, exchanged, misread>>

RemoveCard ==
    /\ Remove
    /\ exchanged' = TRUE
    /\ UNCHANGED <<content, sector, pf_vars, misread>>

(* The driver goes on; a block it has received is in sd_block_buffer.      *)
Drive ==
    /\ DriverStep
    /\ sector' = IF pc = "data"
                 THEN IF card.sending = Garbage THEN Erased ELSE content[card.sending]
                 ELSE sector
    /\ UNCHANGED <<content, pf_vars, exchanged, misread>>

Output ==
    /\ mpc = "out"
    /\ __start \/ __end
    /\ UNCHANGED mountVars

(* "sdinit" and "readsd"; of the last mount nothing is said any more.      *)
CallDriver ==
    /\ mpc = "out"
    /\ sd_reset \/ \E b \in Block : sd_read_block(b)
    /\ mount_result' = "NONE"
    /\ exchanged' = TRUE
    /\ misread' = FALSE
    /\ whole' = TRUE /\ bsect' = 0                    \* local variables
    /\ UNCHANGED <<content, sector, mpc, mounted>>

-----------------------------------------------------------------------------
(* disk_initialize and disk_readp call the driver; the step after its      *)
(* return takes the answer.                                                *)

disk_initialize == sd_reset

disk_readp(block_number, then) ==
    /\ sd_read_block(block_number)
    /\ mpc' = then
    /\ UNCHANGED <<mounted, mount_result>>

Returned(at) == mpc = at /\ pc = "shell"
Failed == result # "SD_NO_ERROR"

Give(value) ==
    /\ mpc' = "out"
    /\ mount_result' = value
    /\ mounted' = (value = "FR_OK")
    /\ UNCHANGED <<whole, bsect, sdVars>>

pf_mount ==
    /\ mpc = "out"
    /\ disk_initialize
    /\ mpc' = "initialize"
    /\ mounted' = FALSE
    /\ bsect' = 0
    /\ whole' = TRUE
    /\ mount_result' = "NONE"
    /\ exchanged' = FALSE
    /\ misread' = FALSE
    /\ UNCHANGED <<content, sector>>

Initialized ==
    /\ Returned("initialize")
    /\ IF Failed
       THEN Give("FR_NOT_READY")
       ELSE disk_readp(bsect, "signature") /\ UNCHANGED <<whole, bsect>>
    /\ UNCHANGED <<content, sector, exchanged, misread>>

(* check_fs, first read.                                                   *)
CheckSignature ==
    /\ Returned("signature")
    /\ IF Failed                THEN Give("FR_DISK_ERR")
       ELSE IF ~sector.signature THEN Give("FR_NO_FILESYSTEM")
       ELSE disk_readp(bsect, "type") /\ UNCHANGED <<whole, bsect>>
    /\ UNCHANGED <<content, sector, exchanged, misread>>

(* MUTANT: a boot record is enough.                                        *)
CheckType_not ==
    /\ Returned("type")
    /\ IF ~Failed
       THEN disk_readp(bsect, "parameters") /\ UNCHANGED <<whole, bsect>>
       ELSE Give("FR_NO_FILESYSTEM")
    /\ misread' = (misread \/ Failed)
    /\ UNCHANGED <<content, sector, exchanged>>

(* MUTANT: the partition is looked for again in what it begins with.       *)
CheckType_again ==
    /\ Returned("type")
    /\ IF ~Failed /\ sector.fat
       THEN disk_readp(bsect, "parameters") /\ UNCHANGED <<whole, bsect>>
       ELSE disk_readp(bsect, "table") /\ UNCHANGED <<whole, bsect>>
    /\ misread' = (misread \/ Failed)
    /\ UNCHANGED <<content, sector, exchanged>>

(* check_fs, second read: a read that fails counts as "not FAT".           *)
CheckType ==
    /\ Returned("type")
    /\ IF ~Failed /\ sector.fat
       THEN disk_readp(bsect, "parameters") /\ UNCHANGED <<whole, bsect>>
       ELSE IF whole
       THEN disk_readp(bsect, "table") /\ UNCHANGED <<whole, bsect>>
       ELSE Give("FR_NO_FILESYSTEM")
    /\ misread' = (misread \/ Failed)
    /\ UNCHANGED <<content, sector, exchanged>>

(* pf_mount: the partition table, if sector 0 is no FAT boot record.       *)
FirstPartition ==
    /\ Returned("table")
    /\ IF Failed THEN Give("FR_DISK_ERR")
       ELSE IF sector.partition = NoPartition THEN Give("FR_NO_FILESYSTEM")
       ELSE /\ disk_readp(sector.partition, "signature")
            /\ bsect' = sector.partition
            /\ whole' = FALSE
    /\ UNCHANGED <<content, sector, exchanged, misread>>

(* The numbers of the volume, from which pf_mount fills the FATFS object.  *)
ReadParameters ==
    /\ Returned("parameters")
    /\ IF Failed THEN Give("FR_DISK_ERR")
       ELSE IF ~sector.clusters THEN Give("FR_NO_FILESYSTEM")
       ELSE Give("FR_OK")
    /\ UNCHANGED <<content, sector, exchanged, misread>>

MountStep ==
    \/ Initialized \/ CheckSignature \/ CheckType \/ FirstPartition \/ ReadParameters

MountNext ==
    \/ InsertCard \/ RemoveCard
    \/ Drive
    \/ Output
    \/ CallDriver
    \/ pf_mount \/ MountStep

MountSpec ==
    MountInit /\ [][MountNext]_allVars /\ WF_allVars(Drive) /\ WF_allVars(MountStep)

-----------------------------------------------------------------------------
MountTypeOK ==
    /\ SdTypeOK
    /\ content \in Contents
    /\ sector \in Sectors
    /\ mpc \in {"out", "initialize", "signature", "type", "table", "parameters"}
    /\ bsect \in Block
    /\ mount_result \in {"NONE", "FR_OK", "FR_NOT_READY", "FR_DISK_ERR",
                         "FR_NO_FILESYSTEM"}

Volume(b) == content[b].signature /\ content[b].fat /\ content[b].clusters

(* A volume where sd_read_block(b) reads: on a card addressed by byte that *)
(* is not sector b, unless b is 0, but the one that begins at byte b.      *)
VolumeAt(b) == IsAddress(b) /\ Volume(Addressed(b))

(* What is on the card, as the driver addresses it: a volume at sector 0,  *)
(* or where the first partition is looked for.                             *)
HasVolume ==
    \/ VolumeAt(0)
    \/ /\ content[0].signature
       /\ ~content[0].fat
       /\ content[0].partition # NoPartition
       /\ VolumeAt(content[0].partition)

(* "Disk mounted, success!": unless the card was taken out meanwhile there *)
(* is a volume at bsect, where the next calls will look for it, and the    *)
(* card can still be read; and that volume is the card's, unless the       *)
(* second read of check_fs failed on a boot record, which is then taken    *)
(* for a partition table.                                                  *)
MountedIsAVolume ==
    mpc = "out" /\ mount_result = "FR_OK" /\ ~exchanged =>
        VolumeAt(bsect) /\ card.state = "ready" /\ (HasVolume \/ misread)

(* "Error! No filesystem": there is none, neither at sector 0 nor where    *)
(* the first partition is looked for, unless the card was taken out or the *)
(* second read of check_fs failed, which pff.c:731 takes for another type. *)
(* The partition is looked for where it is if the card is addressed by     *)
(* block.  Of a card addressed by byte the answer may be given although    *)
(* its first partition, in another place, has a volume (sd.c:128).         *)
NoFilesystemMeansNone ==
    mpc = "out" /\ mount_result = "FR_NO_FILESYSTEM" /\ ~exchanged /\ ~misread =>
        ~HasVolume

(* What the shell prints of a mount is true of the card, whichever of the  *)
(* four to seven reads failed.                                             *)
MountAnswersTruly == MountTypeOK /\ MountedIsAVolume /\ NoFilesystemMeansNone

(* Every call of the driver and every mount comes to an end, whatever the  *)
(* card answers.                                                           *)
MountReturns == (pc # "shell" \/ mpc # "out") ~> (pc = "shell" /\ mpc = "out")
=============================================================================
