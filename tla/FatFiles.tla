------------------------------ MODULE FatFiles ------------------------------
(***************************************************************************)
(* Finding and reading a file on a mounted volume: pf_open and pf_read of  *)
(* fat/src/pff.c, as fat/src/pffconf.h configures them (FAT16, no seek, no *)
(* directories, no write).  One step per sector read, and every read may   *)
(* fail; how it does is in SdCard, and how a volume is mounted in Mount.   *)
(* A read that succeeds is of the sector asked for: this is so of a card   *)
(* that is addressed by block (ReadsTheBlock in SdCard).                   *)
(*                                                                         *)
(* A path is a sequence of characters, without spaces and without the one  *)
(* that marks a deleted entry; a byte of a file is the place it is read    *)
(* from, <<sector, offset>>.  Sectors are counted from the one before the  *)
(* root directory.                                                         *)
(***************************************************************************)
EXTENDS Integers, Sequences, FiniteSetsExt, Functions

CONSTANTS
    SECTOR,         \* 512: bytes in a sector
    ENTRIES,        \* 16: directory entries in a sector
    INDEX,          \* 65536: values of DIR.index, a WORD
    CLUST,          \* 65536: values of a cluster number, a WORD
    BODY, NAME,     \* 8 and 11: where the extension of a name starts and ends
    Volumes,        \* volumes: see below
    Paths,          \* the arguments of pf_open
    MaxRead         \* bound: bytes asked for in one call

Dot == "."
Slash == "/"
Blank == " "
Deleted == "deleted"                        \* 0xE5

(* What a directory entry says: its name of NAME characters (none in End,  *)
(* where a directory ends), its attributes, and where its contents are.    *)
DirEntry == [name : Seq(STRING), dir : BOOLEAN, vol : BOOLEAN, clust : 0 .. CLUST - 1,
             size : Nat]

(* csize is a power of 2.  table[c] is the directory entries in cluster c  *)
(* (for a file's cluster: what its bytes look like when they are taken for *)
(* entries).                                                               *)
ASSUME FatAssumption ==
    /\ {SECTOR, ENTRIES, INDEX, CLUST, BODY, NAME} \subseteq Nat \ {0}
    /\ BODY < NAME /\ MaxRead \in Nat
    /\ \A v \in Volumes :
          /\ v.csize \in {1, 2, 4, 8, 16, 32, 64, 128}
          /\ v.n_fatent \in 3 .. CLUST - 1
          /\ v.fat \in [2 .. v.n_fatent - 1 -> 0 .. CLUST - 1]
          /\ v.root \in Seq(DirEntry)
          /\ Len(v.root) % ENTRIES = 0 /\ v.root # <<>> /\ Len(v.root) < INDEX
          /\ DOMAIN v.table = 2 .. v.n_fatent - 1
          /\ \A c \in 2 .. v.n_fatent - 1 :
                /\ v.table[c] \in Seq(DirEntry)
                /\ Len(v.table[c]) = v.csize * ENTRIES

ASSUME PathAssumption == Paths \subseteq Seq(STRING \ {Blank, Deleted})

End == [name |-> <<>>, dir |-> FALSE, vol |-> FALSE, clust |-> 0, size |-> 0]

VARIABLES
    volume,
    FatFs,          \* the volume is mounted (the pointer is not NULL)
    flag,           \* FA_OPENED
    fptr, fsize, org_clust, curr_clust, dsect,
    dj,             \* DIR: sclust, clust, sect, index, fn, last
    path, rest,     \* the argument of pf_open, and what is left of it
    btr, br,
    pc,
    result,
    called,         \* history: the function called last
    asked,          \* history: the bytes the last pf_read was asked for
    failed,         \* history: a sector could not be read during the last call
    got             \* history: the bytes read since the file was opened

file == <<fptr, fsize, org_clust, curr_clust, dsect>>
search == <<dj, path, rest>>
transfer == <<btr, br, got>>
fatVars == <<volume, FatFs, flag, file, search, transfer, pc, result, called, asked,
             failed>>

NoDir == [sclust |-> 0, clust |-> 0, sect |-> 0, index |-> 0, fn |-> <<>>, last |-> TRUE]

(* pf_open's local variables, and what one call has to do with the next.   *)
NoSearch == dj' = NoDir /\ path' = <<>> /\ rest' = <<>>
NoTransfer == btr' = 0 /\ br' = 0 /\ asked' = 0

n_rootdir == Len(volume.root)
dirbase == 1
database == dirbase + n_rootdir \div ENTRIES
Sectors == dirbase .. database + (volume.n_fatent - 2) * volume.csize - 1

FatInit ==
    /\ volume \in Volumes
    /\ FatFs = FALSE
    /\ flag = FALSE
    /\ fptr = 0 /\ fsize = 0 /\ org_clust = 0 /\ curr_clust = 0 /\ dsect = 0
    /\ dj = NoDir /\ path = <<>> /\ rest = <<>>
    /\ btr = 0 /\ br = 0
    /\ pc = "idle"
    /\ result = "FR_OK"
    /\ called = "none"
    /\ asked = 0
    /\ failed = FALSE
    /\ got = <<>>

-----------------------------------------------------------------------------
(* What is read from a sector                                              *)

(* MUTANT: one cluster too many is accepted.                               *)
clust2sect_late(clst) ==
    LET c == (clst - 2) % CLUST
    IN  IF c > volume.n_fatent - 2 THEN 0 ELSE c * volume.csize + database

(* 0 for a cluster number out of range; the subtraction is that of a WORD. *)
clust2sect(clst) ==
    LET c == (clst - 2) % CLUST
    IN  IF c >= volume.n_fatent - 2 THEN 0 ELSE c * volume.csize + database

(* The outcomes of get_fat: <<the next cluster or 1, the read failed>>.    *)
get_fat(clst) ==
    IF clst < 2 \/ clst >= volume.n_fatent
    THEN {<<1, FALSE>>}
    ELSE {<<volume.fat[clst], FALSE>>, <<1, TRUE>>}

EntryAt(sector, i) ==
    IF sector < database
    THEN volume.root[(sector - dirbase) * ENTRIES + i + 1]
    ELSE LET s == sector - database
         IN  volume.table[s \div volume.csize + 2][(s % volume.csize) * ENTRIES + i + 1]

-----------------------------------------------------------------------------
(* create_name: the first name of a path in the form of a directory entry, *)
(* whether the path ends there, and what follows.  The name ends before a  *)
(* slash, a second dot, and a character that its body or its extension has *)
(* no room for; the character it ends before is taken for a slash.         *)
create_name(p) ==
    LET dot     == Min({k \in 1 .. Len(p) : p[k] = Dot} \cup {Len(p) + 1})
        Ends(k) == \/ p[k] = Slash
                   \/ k < dot /\ k > BODY
                   \/ k > dot /\ (p[k] = Dot \/ k - dot > NAME - BODY)
        length  == Min({k \in 1 .. Len(p) : Ends(k)} \cup {Len(p) + 1}) - 1
        sfn(i)  == IF i <= BODY
                   THEN IF i < dot /\ i <= length THEN p[i] ELSE Blank
                   ELSE IF dot + (i - BODY) <= length THEN p[dot + (i - BODY)] ELSE Blank
    IN  [fn |-> [i \in 1 .. NAME |-> sfn(i)], last |-> length = Len(p),
         rest |-> SubSeq(p, length + 2, Len(p))]

ReturnWith(value) == pc' = "idle" /\ result' = value

(* follow_path's next turn, up to dir_find's first read: the first name of *)
(* p in the directory that starts at cluster sclust (0 for the root).      *)
Search(p, sclust) ==
    LET name == create_name(p)
    IN  IF sclust = 1 \/ sclust >= volume.n_fatent         \* dir_rewind
        THEN ReturnWith("FR_DISK_ERR") /\ UNCHANGED <<dj, rest>>
        ELSE /\ dj' = [sclust |-> sclust, clust |-> sclust, index |-> 0,
                       sect |-> IF sclust # 0 THEN clust2sect(sclust) ELSE dirbase,
                       fn |-> name.fn, last |-> name.last]
             /\ rest' = name.rest
             /\ pc' = "find"
             /\ UNCHANGED result

(* The path without its first slash.                                       *)
Stripped(p) == IF p # <<>> /\ p[1] = Slash THEN Tail(p) ELSE p

(* An empty path is the root.                                              *)
pf_open ==
    /\ pc = "idle"
    /\ \E p \in Paths :
          /\ path' = p
          /\ IF ~FatFs
             THEN ReturnWith("FR_NOT_ENABLED") /\ UNCHANGED <<flag, dj, rest>>
             ELSE /\ flag' = FALSE
                  /\ IF Stripped(p) = <<>>
                     THEN ReturnWith("FR_NO_FILE") /\ UNCHANGED <<dj, rest>>
                     ELSE Search(Stripped(p), 0)
    /\ called' = "pf_open"
    /\ failed' = FALSE
    /\ NoTransfer
    /\ got' = <<>>
    /\ UNCHANGED <<volume, FatFs, file>>

(* MUTANT: the end of the index's range is not looked for.                 *)
dir_next_wraps ==
    LET i     == (dj.index + 1) % INDEX
        To(s) == dj' = [dj EXCEPT !.index = i, !.sect = s] /\ UNCHANGED <<pc, result, failed>>
    IN  IF i % ENTRIES # 0 THEN To(dj.sect)
        ELSE IF dj.clust = 0
        THEN IF i >= n_rootdir
             THEN ReturnWith("FR_NO_FILE") /\ UNCHANGED <<dj, failed>>
             ELSE To(dj.sect + 1)
        ELSE IF (i \div ENTRIES) % volume.csize # 0 THEN To(dj.sect + 1)
        ELSE \E next \in get_fat(dj.clust) :
                IF next[1] <= 1
                THEN ReturnWith("FR_DISK_ERR") /\ failed' = next[2] /\ UNCHANGED dj
                ELSE IF next[1] >= volume.n_fatent
                THEN ReturnWith("FR_NO_FILE") /\ UNCHANGED <<dj, failed>>
                ELSE /\ dj' = [dj EXCEPT !.index = i, !.clust = next[1],
                                         !.sect = clust2sect(next[1])]
                     /\ UNCHANGED <<pc, result, failed>>

(* The next entry: in the sector, the next sector of the root or of the    *)
(* cluster, or the first one of the next cluster.                          *)
dir_next ==
    LET i     == (dj.index + 1) % INDEX
        To(s) == dj' = [dj EXCEPT !.index = i, !.sect = s] /\ UNCHANGED <<pc, result, failed>>
    IN  IF i = 0 \/ dj.sect = 0
        THEN ReturnWith("FR_NO_FILE") /\ UNCHANGED <<dj, failed>>
        ELSE IF i % ENTRIES # 0 THEN To(dj.sect)
        ELSE IF dj.clust = 0
        THEN IF i >= n_rootdir
             THEN ReturnWith("FR_NO_FILE") /\ UNCHANGED <<dj, failed>>
             ELSE To(dj.sect + 1)
        ELSE IF (i \div ENTRIES) % volume.csize # 0 THEN To(dj.sect + 1)
        ELSE \E next \in get_fat(dj.clust) :
                IF next[1] <= 1
                THEN ReturnWith("FR_DISK_ERR") /\ failed' = next[2] /\ UNCHANGED dj
                ELSE IF next[1] >= volume.n_fatent
                THEN ReturnWith("FR_NO_FILE") /\ UNCHANGED <<dj, failed>>
                ELSE /\ dj' = [dj EXCEPT !.index = i, !.clust = next[1],
                                         !.sect = clust2sect(next[1])]
                     /\ UNCHANGED <<pc, result, failed>>

(* The entry is the one looked for: open the file, or go on in it.         *)
Found(entry) ==
    IF dj.last /\ ~entry.dir
    THEN /\ flag' = TRUE
         /\ org_clust' = entry.clust /\ fsize' = entry.size /\ fptr' = 0
         /\ got' = <<>>
         /\ ReturnWith("FR_OK")
         /\ UNCHANGED <<dj, rest, curr_clust, dsect, btr, br>>
    ELSE /\ UNCHANGED <<flag, file, transfer>>
         /\ IF dj.last \/ ~entry.dir
            THEN ReturnWith("FR_NO_FILE") /\ UNCHANGED <<dj, rest>>
            ELSE Search(rest, entry.clust)

(* MUTANT: a volume label is taken for a file.                             *)
dir_find_label ==
    /\ pc = "find"
    /\ \/ LET entry == EntryAt(dj.sect, dj.index % ENTRIES)
          IN  IF entry # End /\ entry.name = dj.fn
              THEN Found(entry) /\ UNCHANGED failed
              ELSE /\ UNCHANGED <<flag, file, transfer, rest>>
                   /\ IF entry = End
                      THEN ReturnWith("FR_NO_FILE") /\ UNCHANGED <<dj, failed>>
                      ELSE dir_next
       \/ /\ failed' = TRUE
          /\ ReturnWith("FR_DISK_ERR")
          /\ UNCHANGED <<flag, file, transfer, dj, rest>>
    /\ UNCHANGED <<volume, FatFs, path, called, asked>>

(* One turn of dir_find's loop, and what pf_open does at its end.          *)
dir_find ==
    /\ pc = "find"
    /\ \/ LET entry == EntryAt(dj.sect, dj.index % ENTRIES)
          IN  IF entry # End /\ ~entry.vol /\ entry.name = dj.fn
              THEN Found(entry) /\ UNCHANGED failed
              ELSE /\ UNCHANGED <<flag, file, transfer, rest>>
                   /\ IF entry = End
                      THEN ReturnWith("FR_NO_FILE") /\ UNCHANGED <<dj, failed>>
                      ELSE dir_next
       \/ /\ failed' = TRUE
          /\ ReturnWith("FR_DISK_ERR")
          /\ UNCHANGED <<flag, file, transfer, dj, rest>>
    /\ UNCHANGED <<volume, FatFs, path, called, asked>>

-----------------------------------------------------------------------------
pf_read ==
    /\ pc = "idle"
    /\ \E n \in 0 .. MaxRead :
          /\ asked' = n
          /\ IF FatFs /\ flag
             THEN /\ btr' = IF n > fsize - fptr THEN fsize - fptr ELSE n
                  /\ pc' = "read"
                  /\ UNCHANGED result
             ELSE /\ ReturnWith(IF FatFs THEN "FR_NOT_OPENED" ELSE "FR_NOT_ENABLED")
                  /\ UNCHANGED btr
    /\ br' = 0
    /\ called' = "pf_read"
    /\ failed' = FALSE
    /\ NoSearch
    /\ UNCHANGED <<volume, FatFs, flag, file, got>>

ABORT(value) == flag' = FALSE /\ ReturnWith(value)

(* MUTANT: the next cluster is read from the first one's entry.            *)
Locate_from_first ==
    /\ pc = "read" /\ btr > 0 /\ fptr % SECTOR = 0
    /\ LET cs == (fptr \div SECTOR) % volume.csize
       IN  \E next \in IF cs # 0 THEN {<<curr_clust, FALSE>>}
                       ELSE IF fptr = 0 THEN {<<org_clust, FALSE>>}
                       ELSE get_fat(org_clust) :
              /\ failed' = next[2]
              /\ IF cs = 0 /\ next[1] <= 1
                 THEN ABORT("FR_DISK_ERR") /\ UNCHANGED <<curr_clust, dsect>>
                 ELSE /\ curr_clust' = next[1]
                      /\ IF clust2sect(next[1]) = 0
                         THEN ABORT("FR_DISK_ERR") /\ UNCHANGED dsect
                         ELSE /\ dsect' = clust2sect(next[1]) + cs
                              /\ pc' = "data"
                              /\ UNCHANGED <<flag, result>>
    /\ UNCHANGED <<volume, FatFs, fptr, fsize, org_clust, search, transfer, called, asked>>

(* At a sector's first byte: the sector, and at a cluster's first byte the *)
(* cluster.                                                                *)
Locate ==
    /\ pc = "read" /\ btr > 0 /\ fptr % SECTOR = 0
    /\ LET cs == (fptr \div SECTOR) % volume.csize
       IN  \E next \in IF cs # 0 THEN {<<curr_clust, FALSE>>}
                       ELSE IF fptr = 0 THEN {<<org_clust, FALSE>>}
                       ELSE get_fat(curr_clust) :
              /\ failed' = next[2]
              /\ IF cs = 0 /\ next[1] <= 1
                 THEN ABORT("FR_DISK_ERR") /\ UNCHANGED <<curr_clust, dsect>>
                 ELSE /\ curr_clust' = next[1]
                      /\ IF clust2sect(next[1]) = 0
                         THEN ABORT("FR_DISK_ERR") /\ UNCHANGED dsect
                         ELSE /\ dsect' = clust2sect(next[1]) + cs
                              /\ pc' = "data"
                              /\ UNCHANGED <<flag, result>>
    /\ UNCHANGED <<volume, FatFs, fptr, fsize, org_clust, search, transfer, called, asked>>

(* The rest of the sector, or as much of it as is asked for.               *)
Transfer ==
    /\ \/ pc = "data"
       \/ pc = "read" /\ btr > 0 /\ fptr % SECTOR # 0
    /\ \/ LET offset == fptr % SECTOR
              rcnt   == IF SECTOR - offset > btr THEN btr ELSE SECTOR - offset
          IN  /\ got' = got \o [i \in 1 .. rcnt |-> <<dsect, offset + i - 1>>]
              /\ fptr' = fptr + rcnt
              /\ btr' = btr - rcnt
              /\ br' = br + rcnt
              /\ pc' = "read"
              /\ UNCHANGED <<flag, result, failed>>
       \/ /\ failed' = TRUE
          /\ ABORT("FR_DISK_ERR")
          /\ UNCHANGED <<fptr, transfer>>
    /\ UNCHANGED <<volume, FatFs, fsize, org_clust, curr_clust, dsect, search, called,
                   asked>>

ReadDone ==
    /\ pc = "read" /\ btr = 0
    /\ ReturnWith("FR_OK")
    /\ UNCHANGED <<volume, FatFs, flag, file, search, transfer, called, asked, failed>>

-----------------------------------------------------------------------------
(* pf_mount, with success or without; at first, and again.                 *)
pf_mount ==
    /\ pc = "idle"
    /\ FatFs' \in BOOLEAN
    /\ flag' = IF FatFs' THEN FALSE ELSE flag
    /\ called' = "pf_mount"
    /\ NoSearch
    /\ NoTransfer /\ failed' = FALSE
    /\ UNCHANGED <<volume, file, got, pc, result>>

FatStep == dir_find \/ Locate \/ Transfer \/ ReadDone

FatNext == pf_open \/ pf_read \/ pf_mount \/ FatStep

FatSpec == FatInit /\ [][FatNext]_fatVars /\ WF_fatVars(FatStep)

-----------------------------------------------------------------------------
(* Types, and that a file is never read beyond its size.                   *)
FatTypeOK ==
    /\ volume \in Volumes
    /\ FatFs \in BOOLEAN /\ flag \in BOOLEAN
    /\ pc \in {"idle", "find", "read", "data"}
    /\ fptr \in 0 .. fsize
    /\ {org_clust, curr_clust} \subseteq 0 .. CLUST - 1
    /\ dj.index \in 0 .. INDEX - 1
    /\ btr \in 0 .. MaxRead /\ br \in 0 .. MaxRead
    /\ result \in {"FR_OK", "FR_DISK_ERR", "FR_NO_FILE", "FR_NOT_OPENED", "FR_NOT_ENABLED"}

(* Whatever the FAT says, only the volume's own directory and data sectors *)
(* are read.                                                               *)
StaysInVolume ==
    /\ FatTypeOK
    /\ pc = "find" => dj.sect \in Sectors
    /\ pc = "data" => dsect \in Sectors /\ dsect >= database

(* The clusters that the FAT links to cluster c, from c on; 0 afterwards.  *)
Chain(c) ==
    LET chain[k \in Nat] ==
            IF k = 0 THEN c
            ELSE IF chain[k - 1] \in 2 .. volume.n_fatent - 1
            THEN volume.fat[chain[k - 1]] ELSE 0
    IN  chain

(* Where the n-th byte of the open file is, n counted from 0.              *)
ByteAt(n) ==
    LET s == n \div SECTOR
        c == Chain(org_clust)[s \div volume.csize]
    IN  <<database + (c - 2) * volume.csize + (s % volume.csize), n % SECTOR>>

(* The directory that starts at cluster c (0 for the root): whether it has *)
(* an entry h, which it is, and the entries before its end.  Labels,       *)
(* deleted entries and the links to itself and its parent are left out.    *)
ClusterOf(c, h) == Chain(c)[h \div (volume.csize * ENTRIES)]
Holds(c, h) == IF c = 0 THEN h < n_rootdir ELSE ClusterOf(c, h) \in DOMAIN volume.fat
EntryOf(c, h) == IF c = 0 THEN volume.root[h + 1]
                 ELSE volume.table[ClusterOf(c, h)][(h % (volume.csize * ENTRIES)) + 1]
Entries(c) ==
    LET Before(h) == \A i \in 0 .. h : Holds(c, i) /\ EntryOf(c, i) # End
        listed    == {EntryOf(c, h) : h \in {i \in 0 .. INDEX - 1 : Before(i)}}
    IN  {x \in listed : ~x.vol /\ x.name[1] \notin {Dot, Deleted}}

(* The characters of a name's body, or extension: those before the blanks. *)
Field(name, first, last) ==
    SubSeq(name, first,
           CHOOSE k \in first - 1 .. last : \A i \in first .. last : name[i] # Blank <=> i <= k)

(* How a name is written.                                                  *)
Spelled(name) ==
    LET extension == Field(name, BODY + 1, NAME)
    IN  Field(name, 1, BODY) \o (IF extension = <<>> THEN <<>> ELSE <<Dot>> \o extension)

WellFormed(name) ==
    /\ Len(name) = NAME /\ name[1] # Blank
    /\ \A i \in 1 .. NAME : name[i] \notin {Dot, Slash}
    /\ \A i, j \in 1 .. NAME :
          i < j /\ (j <= BODY \/ i > BODY) /\ name[i] = Blank => name[j] = Blank

(* The clusters from c on have an end, and hold size bytes.                *)
HasChain(c, size) ==
    \E n \in 1 .. volume.n_fatent :
        /\ \A m \in 0 .. n - 1 : Chain(c)[m] \in DOMAIN volume.fat
        /\ Chain(c)[n] >= volume.n_fatent
        /\ size <= n * volume.csize * SECTOR

(* In the root and the directories D, whose clusters have an end, each     *)
(* name stands for one entry: a directory's is in D, and a file has the    *)
(* clusters it needs.                                                      *)
SoundWith(D) ==
    /\ \A c \in D : HasChain(c, 0)
    /\ \A c \in {0} \cup D : \A x \in Entries(c) :
          /\ WellFormed(x.name)
          /\ x.dir => x.clust \in D
          /\ ~x.dir /\ x.size > 0 => HasChain(x.clust, x.size)
          /\ \A y \in Entries(c) : y.name = x.name => y = x

Sound == \E D \in SUBSET DOMAIN volume.fat : SoundWith(D)

(* Any sequence of reads of any lengths delivers the bytes of the open     *)
(* file, in order, each once, wherever the calls cut sectors and clusters. *)
(* Fewer bytes than were asked for without an error mean the end of the    *)
(* file, and on a sound volume an error means a sector that could not be   *)
(* read.                                                                   *)
ReadsTheFile ==
    /\ FatFs /\ flag => /\ Len(got) = fptr
                        /\ \A n \in 1 .. Len(got) : got[n] = ByteAt(n - 1)
    /\ pc = "idle" /\ called = "pf_read" =>
          /\ result = "FR_OK" /\ br < asked => fptr = fsize
          /\ result = "FR_DISK_ERR" => failed \/ ~Sound

(* The end of the name that begins after the i-th character of a path.     *)
NameEnd(p, i) == Min({k \in i + 1 .. Len(p) : p[k] = Slash} \cup {Len(p) + 1}) - 1

(* The files that a path means: in the root what its first name means, and *)
(* so on.  means[i][c] is what the path after its i-th character means in  *)
(* the directory that starts at cluster c.                                 *)
Meant(p) ==
    LET means[i \in 0 .. Len(p)] ==
            [c \in {0} \cup DOMAIN volume.fat |->
                LET end  == NameEnd(p, i)
                    here == {x \in Entries(c) : Spelled(x.name) = SubSeq(p, i + 1, end)}
                IN  IF end = Len(p) THEN {x \in here : ~x.dir}
                    ELSE UNION {means[end + 1][x.clust] : x \in {y \in here : y.dir}}]
    IN  means[0][0]

(* Each name of a path has room in an entry and does not end with a dot,   *)
(* or begins with one or is empty, and means nothing.                      *)
Fits(p) ==
    \A i \in 0 .. Len(p) : i = 0 \/ p[i] = Slash =>
        LET name == SubSeq(p, i + 1, NameEnd(p, i))
        IN  \/ name = <<>> \/ name[1] = Dot
            \/ \E b \in 1 .. BODY : /\ Len(name) \in {b} \cup b + 2 .. b + 1 + (NAME - BODY)
                                    /\ \A k \in 1 .. Len(name) : name[k] = Dot <=> k = b + 1

(* On a sound volume pf_open opens the file that its path means, finds     *)
(* none exactly if there is none, and fails only if a sector cannot be     *)
(* read.                                                                   *)
OpensTheNamedFile ==
    pc = "idle" /\ called = "pf_open" /\ FatFs /\ Sound /\ Fits(Stripped(path)) =>
        /\ result = "FR_OK" =>
              flag /\ \E f \in Meant(Stripped(path)) : f.clust = org_clust /\ f.size = fsize
        /\ result = "FR_NO_FILE" => Meant(Stripped(path)) = {} /\ ~flag
        /\ result = "FR_DISK_ERR" => failed /\ ~flag

(* Every call comes to an end, also in a directory whose chain of clusters *)
(* runs in a circle.                                                       *)
FatCallsReturn == pc # "idle" ~> pc = "idle"
=============================================================================
