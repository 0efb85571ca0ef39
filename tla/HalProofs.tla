------------------------------ MODULE HalProofs ------------------------------
(***************************************************************************)
(* Theorems about the file layer, for every set of devices, callbacks,     *)
(* names and paths, every table size and every driver result: the table    *)
(* stays sound, and it behaves as OpenFiles promises.  And about memory,   *)
(* for caches of any size and line and any regions that share no line: no  *)
(* read gives an old value.                                                *)
(***************************************************************************)
EXTENDS Hal, WellFoundedInduction, TLAPS

-----------------------------------------------------------------------------
(* Lookup.                                                                 *)

(* Min of a set of naturals is in it.                                      *)
LEMMA MinIsIn ==
  ASSUME NEW S \in SUBSET Nat, S # {}
  PROVE  Min(S) \in S /\ \A y \in S : Min(S) <= y
<1>1. PICK x \in S : \A y \in S : ~ (<<y, x>> \in OpToRel(<, Nat))
  BY NatLessThanWellFounded, WFMin
<1>2. ASSUME NEW y \in S, ~(x <= y)
      PROVE  FALSE
  <2>1. y < x /\ <<y, x>> \in Nat \X Nat
    BY <1>2
  <2>2. <<y, x>> \in OpToRel(<, Nat)
    BY <2>1, Zenon DEF OpToRel
  <2> QED BY <1>1, <2>2
<1> QED BY <1>2 DEF Min

(* A device found by its name is on the device list.                       *)
LEMMA FindDev ==
  ASSUME NEW S, alt_dev_list \in Seq(S), NEW name
  PROVE  alt_find_dev(name) \in S \union {None}
<1> DEFINE hits == {i \in DOMAIN alt_dev_list : NameOf[alt_dev_list[i]] = name}
<1>1. alt_find_dev(name) = IF hits = {} THEN None ELSE alt_dev_list[Min(hits)]
  BY DEF alt_find_dev, FirstIn
<1>2. hits \in SUBSET Nat /\ \A i \in hits : alt_dev_list[i] \in S
  OBVIOUS
<1>3. hits # {} => Min(hits) \in hits
  BY <1>2, MinIsIn
<1> QED BY <1>1, <1>2, <1>3

(* A file system found by its mount point is on the file system list.      *)
LEMMA FindFile ==
  ASSUME NEW S, alt_fs_list \in Seq(S), NEW name
  PROVE  alt_find_file(name) \in S \union {None}
<1> DEFINE hits == {i \in DOMAIN alt_fs_list : IsPrefix(NameOf[alt_fs_list[i]], name)}
<1>1. alt_find_file(name) = IF hits = {} THEN None ELSE alt_fs_list[Min(hits)]
  BY DEF alt_find_file, FirstIn
<1>2. hits \in SUBSET Nat /\ \A i \in hits : alt_fs_list[i] \in S
  OBVIOUS
<1>3. hits # {} => Min(hits) \in hits
  BY <1>2, MinIsIn
<1> QED BY <1>1, <1>2, <1>3

-----------------------------------------------------------------------------
(* The inductive invariant.  SafeTable is inductive by itself; that a      *)
(* device never has two owners is not.  alt_fd_lock looks one short of     *)
(* alt_max_fd, so two descriptors are kept from owning one device only     *)
(* because an owner that shares its device lies below alt_max_fd: whoever  *)
(* asks next sees it.                                                      *)

Excl(i)  == "ALT_FD_EXCL" \in alt_fd_list[i].flags
IsDev(i) == "ALT_FD_DEV" \in alt_fd_list[i].flags

(* Devices, not file systems, are on the device list, and only their       *)
(* descriptors can be locked.                                              *)
FlagsAgree ==
  /\ alt_dev_list \in Seq(Device \ FileSystem)
  /\ \A i \in Fd : IsDev(i) => /\ alt_fd_list[i].dev \in Device \ FileSystem
                               /\ alt_max_fd > STDERR_FILENO
  /\ \A i \in Fd : Excl(i) => IsDev(i) /\ step \in {"main", "exit", "halted"}

OneOwner ==
  \A i, j \in Fd : i # j /\ Excl(i) /\ alt_fd_list[i].dev = alt_fd_list[j].dev
                     => i < alt_max_fd /\ ~Excl(j)

IInv == SafeTable /\ FlagsAgree /\ OneOwner

-----------------------------------------------------------------------------
(* open().                                                                 *)

(* What open leaves: nothing but perhaps a higher alt_max_fd when it       *)
(* fails, and one entry above the standard streams when it succeeds, for a *)
(* device that nobody owns or for a file system.                           *)
Taken(fds, max, rc, dev, mode, flags) ==
  /\ rc \in Fd /\ rc > STDERR_FILENO /\ rc <= max /\ alt_fd_list[rc] = FreeFd
  /\ dev \in Device
  /\ flags \subseteq OpenFlags \union {"ALT_FD_DEV"}
  /\ "ALT_FD_DEV" \in flags => /\ dev \notin FileSystem
                               /\ \A j \in (0 .. max) \ {rc} : alt_fd_list[j].dev = dev => ~Excl(j)
  /\ "ALT_FD_DEV" \notin flags => dev \in FileSystem
  /\ fds = [alt_fd_list EXCEPT ![rc] = [dev |-> dev, mode |-> mode, flags |-> flags]]

LEMMA OpenIs ==
  ASSUME IInv, NEW name, NEW mode \in Mode, NEW flags \in SUBSET OpenFlags,
         NEW r \in DriverResults, NEW o, o = OpenOutcome(name, mode, flags, r)
  PROVE  /\ o.max \in Int /\ alt_max_fd <= o.max /\ o.max < MaxFd
         /\ o.rc \in Int
         /\ o.rc < 0 => o.fds = alt_fd_list
         /\ o.rc >= 0 => \E dev \in Device, fl \in SUBSET (OpenFlags \union {"ALT_FD_DEV"}) :
                           Taken(o.fds, o.max, o.rc, dev, mode, fl)
<1> DEFINE found == alt_find_dev(name)
           isafs == found = None
           dev   == IF isafs THEN alt_find_file(name) ELSE found
           free  == {i \in Fd : alt_fd_list[i].dev = None}
           index == IF dev = None THEN -ENODEV ELSE alt_get_fd
           fl    == flags \union (IF isafs THEN {} ELSE {"ALT_FD_DEV"})
           taken == [alt_fd_list EXCEPT ![index] = [dev |-> dev, mode |-> mode, flags |-> fl]]
           max   == IF index > alt_max_fd THEN index ELSE alt_max_fd
           status == IF ~isafs /\ alt_file_locked(taken, max, index) THEN -EACCES
                     ELSE Result(dev, "open", r, 0)
<1>1. /\ found \in (Device \ FileSystem) \union {None}
      /\ alt_find_file(name) \in FileSystem \union {None}
  BY FindDev, FindFile DEF IInv, SafeTable, TypeOK, FlagsAgree
<1>2. /\ dev \in Device \union {None}
      /\ isafs /\ dev # None => dev \in FileSystem
      /\ ~isafs => dev \in Device \ FileSystem
  BY <1>1, TableAssumption
<1>3. free \in SUBSET Nat /\ (free # {} => Min(free) \in free)
  BY MinIsIn, TableAssumption DEF Fd
<1>4. alt_get_fd = IF free = {} THEN -EMFILE ELSE Min(free)
  BY DEF alt_get_fd
<1>5. /\ index \in Int
      /\ index >= 0 => /\ dev \in Device /\ index \in Fd /\ index > STDERR_FILENO
                       /\ alt_fd_list[index] = FreeFd
  BY <1>2, <1>3, <1>4, TableAssumption
     DEF ENODEV, EMFILE, IInv, SafeTable, TypeOK, MarkCovers, Fd, STDERR_FILENO
<1>6. /\ o.fds = IF index < 0 THEN alt_fd_list
                 ELSE IF status < 0 THEN alt_release_fd(taken, index) ELSE taken
      /\ o.max = IF index < 0 THEN alt_max_fd ELSE max
      /\ o.rc = IF index < 0 THEN index ELSE IF status < 0 THEN status ELSE index
  BY DEF OpenOutcome
<1>7. max \in Int /\ alt_max_fd <= max /\ index <= max /\ (index \in Fd => max < MaxFd)
  BY <1>5, TableAssumption DEF IInv, SafeTable, TypeOK, Fd
<1>8. status \in Int
  BY TableAssumption DEF Result, EACCES
<1>9. CASE index < 0
  BY <1>5, <1>6, <1>9 DEF IInv, SafeTable, TypeOK
<1>10. CASE index >= 0 /\ status < 0
  <2>1. alt_release_fd(taken, index) = alt_fd_list
    BY <1>5, <1>10 DEF alt_release_fd, IInv, SafeTable, TypeOK
  <2> HIDE DEF index, status, max, taken
  <2> QED BY <1>5, <1>6, <1>7, <1>8, <1>10, <2>1
<1>11. CASE index >= 0 /\ ~(status < 0)
  <2>1. o.fds = taken /\ o.max = max /\ o.rc = index
    BY <1>5, <1>6, <1>11
  <2>2. ~isafs => ~alt_file_locked(taken, max, index)
    BY <1>11 DEF EACCES
  <2>3. ASSUME ~isafs, NEW j \in (0 .. max) \ {index}, alt_fd_list[j].dev = dev
        PROVE  ~Excl(j)
    BY <1>5, <1>7, <1>11, <2>2, <2>3 DEF alt_file_locked, Excl, IInv, SafeTable, TypeOK, Fd, alt_fd
  <2>4. fl \in SUBSET (OpenFlags \union {"ALT_FD_DEV"}) /\ ("ALT_FD_DEV" \in fl <=> ~isafs)
    BY TableAssumption
  <2> HIDE DEF index, status, max, fl, dev
  <2>5. Taken(taken, max, index, dev, mode, fl)
    BY <1>2, <1>5, <1>7, <1>11, <2>3, <2>4, TableAssumption DEF Taken
  <2> HIDE DEF taken
  <2> QED BY <1>5, <1>7, <1>11, <2>1, <2>4, <2>5 DEF Fd
<1> HIDE DEF index, status
<1> QED BY <1>5, <1>8, <1>9, <1>10, <1>11

-----------------------------------------------------------------------------
(* What a step can do to the table.                                        *)

AfterStartup == {"main", "exit", "halted"}

(* The rest of the state, whatever happens to the table.                   *)
Rest ==
  /\ alt_max_fd' \in Int /\ alt_max_fd <= alt_max_fd' /\ alt_max_fd' < MaxFd
  /\ alt_dev_list' \in Seq(Device \ FileSystem) /\ alt_fs_list' \in Seq(FileSystem)
  /\ step' \in {"stdout", "stdin", "stderr"} \union AfterStartup
  /\ step \in AfterStartup => step' \in AfterStartup
  /\ ret' \in Int

SetEntry(i, entry) == alt_fd_list' = [alt_fd_list EXCEPT ![i] = entry]
SetFlags(i, flags) == alt_fd_list' = [alt_fd_list EXCEPT ![i].flags = flags]

Keeps == UNCHANGED <<alt_fd_list, held>>

Opens ==
  \E i \in Fd, dev \in Device, mode \in Mode, flags \in SUBSET (OpenFlags \union {"ALT_FD_DEV"}) :
    /\ Taken(alt_fd_list', alt_max_fd', i, dev, mode, flags)
    /\ held' = held \union {i}

Redirects ==
  \E i \in 0 .. STDERR_FILENO, dev \in Device, mode \in Mode,
     flags \in SUBSET (OpenFlags \union {"ALT_FD_DEV"}) :
    /\ step \notin AfterStartup
    /\ "ALT_FD_DEV" \in flags => dev \notin FileSystem /\ alt_max_fd' > STDERR_FILENO
    /\ SetEntry(i, [dev |-> dev, mode |-> mode, flags |-> flags])
    /\ UNCHANGED held

Closes == \E i \in held : SetEntry(i, FreeFd) /\ held' = held \ {i}

Locks == \E i \in Usable :
           /\ step \in AfterStartup /\ IsDev(i)
           /\ \A j \in 0 .. alt_max_fd - 1 : j # i => alt_fd_list[j].dev # alt_fd_list[i].dev
           /\ SetFlags(i, alt_fd_list[i].flags \union {"ALT_FD_EXCL"})
           /\ UNCHANGED held

Unlocks == \E i \in Usable : /\ SetFlags(i, alt_fd_list[i].flags \ {"ALT_FD_EXCL"})
                             /\ UNCHANGED held

SetsFlags == \E i \in Usable, flags \in SUBSET OpenFlags :
               /\ SetFlags(i, (alt_fd_list[i].flags \ OpenFlags) \union flags)
               /\ UNCHANGED held

Effect == Keeps \/ Opens \/ Redirects \/ Closes \/ Locks \/ Unlocks \/ SetsFlags

(* A descriptor the program may use is one of the table.                   *)
LEMMA UsableIs ==
  ASSUME IInv, NEW i \in Usable
  PROVE  /\ i \in Fd /\ alt_fd_list[i].dev \in Device /\ i \in Int
         /\ i \in held <=> i > STDERR_FILENO
  BY TableAssumption
     DEF Usable, IInv, SafeTable, TypeOK, NoLeak, Fd, STDERR_FILENO, alt_fd

(* What a driver answers is a number.                                      *)
LEMMA ResultIs ==
  ASSUME NEW dev, NEW callback, NEW r \in DriverResults, NEW otherwise \in Int
  PROVE  Result(dev, callback, r, otherwise) \in Int
  BY TableAssumption DEF Result

(* Start-up registers the JTAG UART.                                       *)
LEMMA SysInitEffect ==
  ASSUME IInv, alt_sys_init
  PROVE  Rest /\ Effect
<1>1. alt_dev_list' \in Seq(Device \ FileSystem)
  <2>1. Uart \in Device \ FileSystem /\ alt_dev_list \in Seq(Device \ FileSystem)
    BY TableAssumption DEF IInv, FlagsAgree
  <2>2. <<Uart>> \o alt_dev_list \in Seq(Device \ FileSystem)
    BY <2>1
  <2> QED BY <2>1, <2>2 DEF alt_sys_init, alt_dev_reg, alt_dev_llist_insert, alt_llist_insert
<1> QED BY <1>1 DEF alt_sys_init, At, table, Rest, AfterStartup, Effect, Keeps,
                    IInv, SafeTable, TypeOK

(* A standard stream moves to the JTAG UART, or nothing happens to it.     *)
LEMMA RedirectEffect ==
  ASSUME IInv, NEW fd \in 0 .. STDERR_FILENO, NEW mode \in Mode,
         alt_open_fd(fd, mode), step \notin AfterStartup,
         step' \in {"stdin", "stderr", "main"}
  PROVE  Rest /\ Effect
<1>1. PICK r \in DriverResults :
        LET old == OpenOutcome(NameOf[Uart], mode, {}, r)
        IN  /\ alt_fd_list' = IF old.rc >= 0
                              THEN alt_release_fd([old.fds EXCEPT ![fd] = old.fds[old.rc]], old.rc)
                              ELSE old.fds
            /\ alt_max_fd' = old.max
            /\ UNCHANGED <<lists, ret, held>>
  BY DEF alt_open_fd
<1> DEFINE old == OpenOutcome(NameOf[Uart], mode, {}, r)
<1>2. /\ old.max \in Int /\ alt_max_fd <= old.max /\ old.max < MaxFd
      /\ old.rc \in Int
      /\ old.rc < 0 => old.fds = alt_fd_list
      /\ old.rc >= 0 => \E dev \in Device, fl \in SUBSET (OpenFlags \union {"ALT_FD_DEV"}) :
                           Taken(old.fds, old.max, old.rc, dev, mode, fl)
  BY OpenIs
<1> HIDE DEF old
<1>3. Rest
  BY <1>1, <1>2 DEF old, Rest, AfterStartup, lists, IInv, SafeTable, TypeOK, FlagsAgree
<1>4. CASE old.rc < 0
  BY <1>1, <1>2, <1>3, <1>4 DEF old, Effect, Keeps
<1>5. CASE old.rc >= 0
  <2>1. PICK dev \in Device, fl \in SUBSET (OpenFlags \union {"ALT_FD_DEV"}) :
               Taken(old.fds, old.max, old.rc, dev, mode, fl)
    BY <1>2, <1>5
  <2> DEFINE entry == [dev |-> dev, mode |-> mode, flags |-> fl]
  <2>2. /\ alt_fd_list[old.rc] = FreeFd /\ old.rc \in Fd /\ old.rc > STDERR_FILENO
        /\ old.fds = [alt_fd_list EXCEPT ![old.rc] = entry] /\ fd \in Fd /\ fd # old.rc
    BY <2>1, TableAssumption DEF Taken, Fd, STDERR_FILENO
  <2>3. alt_fd_list' = alt_release_fd([old.fds EXCEPT ![fd] = old.fds[old.rc]], old.rc)
    BY <1>1, <1>5 DEF old
  <2>4. alt_fd_list' = [alt_fd_list EXCEPT ![fd] = entry]
    BY <2>2, <2>3 DEF alt_release_fd, IInv, SafeTable, TypeOK
  <2>5. "ALT_FD_DEV" \in fl => dev \notin FileSystem
    BY <2>1 DEF Taken
  <2>6. alt_max_fd' > STDERR_FILENO
    BY <1>1, <1>2, <2>1 DEF old, Taken, Fd, STDERR_FILENO
  <2>7. Redirects
    BY <1>1, <2>4, <2>5, <2>6 DEF Redirects, SetEntry
  <2> QED BY <1>3, <2>7 DEF Effect
<1> QED BY <1>2, <1>3, <1>4, <1>5

(* open() and stat(): an entry is taken, or none is.                       *)
LEMMA OpenEffect ==
  ASSUME IInv, NEW name \in Path, NEW mode \in Mode, NEW flags \in SUBSET OpenFlags,
         ALT_OPEN(name, mode, flags)
  PROVE  Rest /\ Effect
<1>1. PICK r \in DriverResults :
        LET o == OpenOutcome(name, mode, flags, r)
        IN  /\ Call(o.rc)
            /\ alt_fd_list' = o.fds /\ alt_max_fd' = o.max
            /\ held' = IF o.rc >= 0 THEN held \union {o.rc} ELSE held
  BY DEF ALT_OPEN
<1> DEFINE o == OpenOutcome(name, mode, flags, r)
<1>2. /\ o.max \in Int /\ alt_max_fd <= o.max /\ o.max < MaxFd
      /\ o.rc \in Int
      /\ o.rc < 0 => o.fds = alt_fd_list
      /\ o.rc >= 0 => \E dev \in Device, fl \in SUBSET (OpenFlags \union {"ALT_FD_DEV"}) :
                           Taken(o.fds, o.max, o.rc, dev, mode, fl)
  BY OpenIs
<1> HIDE DEF o
<1>3. Rest
  BY <1>1, <1>2 DEF o, Call, Running, Rest, AfterStartup, lists, IInv, SafeTable, TypeOK, FlagsAgree
<1>4. CASE o.rc < 0
  BY <1>1, <1>2, <1>3, <1>4 DEF o, Effect, Keeps
<1>5. CASE o.rc >= 0
  <2>1. PICK dev \in Device, fl \in SUBSET (OpenFlags \union {"ALT_FD_DEV"}) :
               Taken(o.fds, o.max, o.rc, dev, mode, fl)
    BY <1>2, <1>5
  <2>2. o.rc \in Fd
    BY <2>1 DEF Taken
  <2>3. Opens
    BY <1>1, <1>5, <2>1, <2>2 DEF o, Opens
  <2> QED BY <1>3, <2>3 DEF Effect
<1> QED BY <1>2, <1>4, <1>5

LEMMA StatEffect ==
  ASSUME IInv, NEW name \in Path, ALT_STAT(name)
  PROVE  Rest /\ Effect
<1>1. PICK r \in DriverResults, s \in DriverResults :
        LET o == OpenOutcome(name, "O_RDONLY", {}, r)
        IN  /\ Call(IF o.rc < 0 THEN -EBADFD ELSE Result(o.fds[o.rc].dev, "fstat", s, 0))
            /\ alt_fd_list' = IF o.rc < 0 THEN o.fds ELSE alt_release_fd(o.fds, o.rc)
            /\ alt_max_fd' = o.max /\ UNCHANGED held
  BY DEF ALT_STAT
<1> DEFINE o == OpenOutcome(name, "O_RDONLY", {}, r)
<1>2. /\ o.max \in Int /\ alt_max_fd <= o.max /\ o.max < MaxFd
      /\ o.rc \in Int
      /\ o.rc < 0 => o.fds = alt_fd_list
      /\ o.rc >= 0 => \E dev \in Device, fl \in SUBSET (OpenFlags \union {"ALT_FD_DEV"}) :
                           Taken(o.fds, o.max, o.rc, dev, "O_RDONLY", fl)
  BY OpenIs DEF Mode
<1>3. /\ Result(o.fds[o.rc].dev, "fstat", s, 0) \in Int
      /\ alt_fd_list' = IF o.rc < 0 THEN o.fds ELSE alt_release_fd(o.fds, o.rc)
      /\ alt_max_fd' = o.max /\ UNCHANGED <<held, lists, step>>
      /\ ret' \in Int /\ Running
  BY <1>1, ResultIs DEF Call, EBADFD
<1> HIDE DEF o
<1>4. Rest
  BY <1>2, <1>3 DEF Running, Rest, AfterStartup, lists, IInv, SafeTable, TypeOK, FlagsAgree
<1>5. ASSUME o.rc >= 0
      PROVE  alt_release_fd(o.fds, o.rc) = alt_fd_list
  <2>1. PICK dev \in Device, fl \in SUBSET (OpenFlags \union {"ALT_FD_DEV"}) :
               Taken(o.fds, o.max, o.rc, dev, "O_RDONLY", fl)
    BY <1>2, <1>5
  <2> QED BY <2>1 DEF Taken, alt_release_fd, IInv, SafeTable, TypeOK
<1> QED BY <1>2, <1>3, <1>4, <1>5 DEF Effect, Keeps

LEMMA CloseEffect ==
  ASSUME IInv, NEW fildes \in Usable \union {-1}, ALT_CLOSE(fildes)
  PROVE  Rest /\ Effect
<1>1. CASE fildes < 0
  BY <1>1 DEF ALT_CLOSE, Call, Leaves, Running, Rest, AfterStartup, lists, table, EBADFD,
              IInv, SafeTable, TypeOK, FlagsAgree, Effect, Keeps
<1>2. CASE ~(fildes < 0)
  <2>1. PICK r \in DriverResults :
          /\ Call(Result(alt_fd_list[fildes].dev, "close", r, 0))
          /\ alt_fd_list' = alt_release_fd(alt_fd_list, fildes)
          /\ held' = held \ {fildes}
          /\ UNCHANGED alt_max_fd
    BY <1>2 DEF ALT_CLOSE
  <2>2. Result(alt_fd_list[fildes].dev, "close", r, 0) \in Int
    BY ResultIs
  <2>3. Rest
    BY <2>1, <2>2 DEF Call, Running, Rest, AfterStartup, lists, IInv, SafeTable, TypeOK, FlagsAgree
  <2>4. /\ fildes \in Fd /\ alt_fd_list[fildes].dev \in Device /\ fildes \in Int
        /\ fildes \in held <=> fildes > STDERR_FILENO
    <3>1. fildes \in Usable
      BY <1>2
    <3> QED BY <3>1, UsableIs
  <2>5. CASE fildes > STDERR_FILENO
    BY <2>1, <2>3, <2>4, <2>5 DEF alt_release_fd, Effect, Closes, SetEntry
  <2>6. CASE ~(fildes > STDERR_FILENO)
    BY <2>1, <2>3, <2>4, <2>6 DEF alt_release_fd, Effect, Keeps
  <2> QED BY <2>5, <2>6
<1> QED BY <1>1, <1>2

(* Calls that leave the table alone.                                       *)
LEMMA LeavesEffect ==
  ASSUME IInv, NEW rc \in Int, Call(rc), Leaves
  PROVE  Rest /\ Effect
  BY DEF Call, Leaves, Running, Rest, AfterStartup, lists, table,
         IInv, SafeTable, TypeOK, FlagsAgree, Effect, Keeps

LEMMA TransferEffect ==
  ASSUME IInv, NEW file \in Usable \union {-1}, NEW callback, NEW forbidden,
         Transfer(file, callback, forbidden)
  PROVE  Rest /\ Effect
<1>1. CASE file < 0
  BY <1>1, LeavesEffect DEF Transfer, EBADFD
<1>2. CASE ~(file < 0)
  <2>1. PICK r \in DriverResults :
          Call(IF alt_fd_list[file].mode = forbidden THEN -EACCES
               ELSE Result(alt_fd_list[file].dev, callback, r, -EACCES))
    BY <1>2 DEF Transfer
  <2>2. Result(alt_fd_list[file].dev, callback, r, -EACCES) \in Int
    BY ResultIs DEF EACCES
  <2> QED BY <2>1, <2>2, LeavesEffect DEF Transfer, EACCES
<1> QED BY <1>1, <1>2

LEMMA AskEffect ==
  ASSUME IInv, NEW file \in Usable \union {-1}, NEW callback, NEW otherwise \in Int,
         Ask(file, callback, otherwise)
  PROVE  Rest /\ Effect
<1>1. CASE file < 0
  BY <1>1, LeavesEffect DEF Ask, EBADFD
<1>2. CASE ~(file < 0)
  <2>1. PICK r \in DriverResults : Call(Result(alt_fd_list[file].dev, callback, r, otherwise))
    BY <1>2 DEF Ask
  <2>2. Result(alt_fd_list[file].dev, callback, r, otherwise) \in Int
    BY ResultIs
  <2> QED BY <2>1, <2>2, LeavesEffect DEF Ask
<1> QED BY <1>1, <1>2

LEMMA IsattyEffect ==
  ASSUME IInv, NEW file \in Usable \union {-1}, ALT_ISATTY(file)
  PROVE  Rest /\ Effect
<1>1. CASE file < 0
  BY <1>1, LeavesEffect DEF ALT_ISATTY
<1>2. CASE ~(file < 0)
  <2>1. PICK chr \in {0, 1} : Call(Result(alt_fd_list[file].dev, "fstat", chr, 1))
    BY <1>2 DEF ALT_ISATTY
  <2>2. Result(alt_fd_list[file].dev, "fstat", chr, 1) \in Int
    BY DEF Result
  <2> QED BY <2>1, <2>2, LeavesEffect DEF ALT_ISATTY
<1> QED BY <1>1, <1>2

(* fcntl() and ioctl() change the flags of one entry.                      *)
LEMMA FcntlEffect ==
  ASSUME IInv, NEW file \in Usable \union {-1}, NEW cmd \in {"F_GETFL", "F_SETFL", "F_DUPFD"},
         NEW flags \in SUBSET OpenFlags, ALT_FCNTL(file, cmd, flags)
  PROVE  Rest /\ Effect
<1>1. CASE file >= 0 /\ cmd = "F_SETFL"
  <2>1. file \in Usable
    BY <1>1
  <2>2. /\ Call(0) /\ UNCHANGED <<alt_max_fd, held>>
        /\ SetFlags(file, (alt_fd_list[file].flags \ OpenFlags) \union flags)
    BY <1>1 DEF ALT_FCNTL, SetFlags
  <2>3. SetsFlags
    BY <2>1, <2>2 DEF SetsFlags
  <2> QED BY <2>2, <2>3 DEF Call, Running, Rest, AfterStartup, lists, IInv, SafeTable, TypeOK,
                            FlagsAgree, Effect
<1>2. CASE ~(file >= 0 /\ cmd = "F_SETFL")
  <2>1. Leaves /\ \E rc \in Int : Call(rc)
    BY <1>2 DEF ALT_FCNTL, Leaves, table, EBADFD, EINVAL
  <2> QED BY <2>1, LeavesEffect
<1> QED BY <1>1, <1>2

LEMMA IoctlEffect ==
  ASSUME IInv, NEW file \in Usable \union {-1},
         NEW req \in {"TIOCEXCL", "TIOCNXCL", "TIOCGCONNECTED"}, ALT_IOCTL(file, req)
  PROVE  Rest /\ Effect
<1> DEFINE mine == file >= 0 /\ "ALT_FD_DEV" \in alt_fd_list[file].flags
                   /\ req \in {"TIOCEXCL", "TIOCNXCL"}
<1>1. CASE ~mine
  <2>1. Ask(file, "ioctl", -ENOTTY)
    BY <1>1 DEF ALT_IOCTL
  <2> QED BY <2>1, AskEffect DEF ENOTTY
<1>2. CASE mine
  <2>1. /\ file \in Usable /\ IsDev(file)
        /\ IF req = "TIOCEXCL" THEN alt_fd_lock(file) ELSE alt_fd_unlock(file)
        /\ UNCHANGED <<alt_max_fd, held>>
    BY <1>2 DEF ALT_IOCTL, IsDev
  <2>2. \E rc \in Int : Call(rc)
    BY <2>1 DEF alt_fd_lock, alt_fd_unlock, EACCES
  <2>3. Rest /\ step \in AfterStartup
    BY <2>1, <2>2 DEF Call, Running, Rest, AfterStartup, lists, IInv, SafeTable, TypeOK, FlagsAgree
  <2>4. Keeps \/ Locks \/ Unlocks
    BY <2>1, <2>3 DEF alt_fd_lock, alt_fd_unlock, Keeps, Locks, Unlocks, SetFlags
  <2> QED BY <2>3, <2>4 DEF Effect
<1> QED BY <1>1, <1>2

(* Every step has one of the effects.                                      *)
LEMMA StepEffect ==
  ASSUME IInv, Next
  PROVE  Rest /\ Effect
<1>1. CASE alt_sys_init
  BY <1>1, SysInitEffect
<1>2. CASE alt_io_redirect
  <2>1. CASE At("stdout", "stdin") /\ alt_open_fd(STDOUT_FILENO, "O_WRONLY")
    BY <2>1, RedirectEffect DEF At, AfterStartup, STDOUT_FILENO, STDERR_FILENO, Mode
  <2>2. CASE At("stdin", "stderr") /\ alt_open_fd(STDIN_FILENO, "O_RDONLY")
    BY <2>2, RedirectEffect DEF At, AfterStartup, STDIN_FILENO, STDERR_FILENO, Mode
  <2>3. CASE At("stderr", "main") /\ alt_open_fd(STDERR_FILENO, "O_WRONLY")
    BY <2>3, RedirectEffect DEF At, AfterStartup, STDERR_FILENO, Mode
  <2> QED BY <1>2, <2>1, <2>2, <2>3 DEF alt_io_redirect
<1>3. CASE Main_returns
  <2>1. PICK r \in DriverResults :
          ret' = Result(alt_fd_list[STDOUT_FILENO].dev, "close", r, 0)
    BY <1>3 DEF Main_returns
  <2>2. ret' \in Int
    BY <2>1, ResultIs
  <2> QED BY <1>3, <2>2 DEF Main_returns, At, table, lists, Rest, AfterStartup,
                            IInv, SafeTable, TypeOK, FlagsAgree, Effect, Keeps
<1>4. CASE ALT_EXIT \/ Halted
  BY <1>4 DEF ALT_EXIT, Halted, At, vars, table, lists, Rest, AfterStartup,
              IInv, SafeTable, TypeOK, FlagsAgree, Effect, Keeps
<1>5. CASE ALT_LINK \/ ALT_UNLINK \/ ALT_RENAME \/ ALT_EXECVE \/ ALT_FORK \/ ALT_WAIT \/ ALT_GETPID
  <2>1. \E rc \in Int : Unsupported(rc)
    BY <1>5 DEF ALT_LINK, ALT_UNLINK, ALT_RENAME, ALT_EXECVE, ALT_FORK, ALT_WAIT, ALT_GETPID,
                ENOSYS, ECHILD
  <2> QED BY <2>1, LeavesEffect DEF Unsupported
<1>6. ASSUME NEW dev \in FileSystem, alt_fs_reg(dev)
      PROVE  Rest /\ Effect
  <2>1. /\ ret' = 0 \/ ret' = -ENODEV
        /\ alt_fs_list' = alt_fs_list \/ alt_fs_list' = <<dev>> \o alt_fs_list
    BY <1>6 DEF alt_fs_reg, alt_llist_insert
  <2>2. alt_fs_list \in Seq(FileSystem) /\ <<dev>> \o alt_fs_list \in Seq(FileSystem)
    BY DEF IInv, SafeTable, TypeOK
  <2>3. alt_fs_list' \in Seq(FileSystem)
    BY <2>1, <2>2, Zenon
  <2>4. ret' \in Int
    BY <2>1 DEF ENODEV
  <2> QED BY <1>6, <2>3, <2>4 DEF alt_fs_reg, Running, table, Rest, AfterStartup,
                            IInv, SafeTable, TypeOK, FlagsAgree, Effect, Keeps
<1>7. ASSUME NEW name \in Path, ALT_STAT(name)
      PROVE  Rest /\ Effect
  BY <1>7, StatEffect
<1>8. ASSUME NEW name \in Path, NEW mode \in Mode, NEW flags \in SUBSET OpenFlags,
             ALT_OPEN(name, mode, flags)
      PROVE  Rest /\ Effect
  BY <1>8, OpenEffect
<1>9. ASSUME NEW file \in Usable \union {-1},
             \/ ALT_CLOSE(file) \/ ALT_READ(file) \/ ALT_WRITE(file)
             \/ ALT_LSEEK(file) \/ ALT_FSTAT(file) \/ ALT_ISATTY(file)
             \/ \E cmd \in {"F_GETFL", "F_SETFL", "F_DUPFD"}, flags \in SUBSET OpenFlags :
                  ALT_FCNTL(file, cmd, flags)
             \/ \E req \in {"TIOCEXCL", "TIOCNXCL", "TIOCGCONNECTED"} : ALT_IOCTL(file, req)
      PROVE  Rest /\ Effect
  <2>1. CASE ALT_CLOSE(file)
    BY <2>1, CloseEffect
  <2>2. CASE ALT_READ(file) \/ ALT_WRITE(file)
    BY <2>2, TransferEffect DEF ALT_READ, ALT_WRITE
  <2>3. CASE ALT_LSEEK(file) \/ ALT_FSTAT(file)
    BY <2>3, AskEffect DEF ALT_LSEEK, ALT_FSTAT, ENOTSUP
  <2>4. CASE ALT_ISATTY(file)
    BY <2>4, IsattyEffect
  <2>5. CASE \E cmd \in {"F_GETFL", "F_SETFL", "F_DUPFD"}, flags \in SUBSET OpenFlags :
                ALT_FCNTL(file, cmd, flags)
    BY <2>5, FcntlEffect
  <2>6. CASE \E req \in {"TIOCEXCL", "TIOCNXCL", "TIOCGCONNECTED"} : ALT_IOCTL(file, req)
    BY <2>6, IoctlEffect
  <2> QED BY <1>9, <2>1, <2>2, <2>3, <2>4, <2>5, <2>6
<1>10. ASSUME NEW pid \in {0, 1}, NEW sig \in {"null", "fatal", "ignored", "unknown"},
              ALT_KILL(pid, sig)
       PROVE  Rest /\ Effect
  <2>1. ret' \in Int
    BY <1>10 DEF ALT_KILL, ESRCH, EINVAL
  <2> QED BY <1>10, <2>1 DEF ALT_KILL, Running, table, lists, Rest, AfterStartup,
                             IInv, SafeTable, TypeOK, FlagsAgree, Effect, Keeps
<1> QED BY <1>1, <1>2, <1>3, <1>4, <1>5, <1>6, <1>7, <1>8, <1>9, <1>10 DEF Next

-----------------------------------------------------------------------------
(* Every effect keeps the invariant.                                       *)

LEMMA FreeIs == FreeFd \in alt_fd /\ FreeFd.dev = None /\ FreeFd.flags = {}
  BY DEF FreeFd, alt_fd, Mode

(* The rest of the state keeps its type by itself.                         *)
LEMMA RestKeeps ==
  ASSUME IInv, Rest, alt_fd_list' \in [Fd -> alt_fd], held' \subseteq Fd,
         \A i \in 0 .. STDERR_FILENO : alt_fd_list'[i].dev # None
  PROVE  TypeOK'
  BY DEF Rest, AfterStartup, IInv, SafeTable, TypeOK, FlagsAgree

LEMMA KeepsInv ==
  ASSUME IInv, Rest, Keeps
  PROVE  IInv'
<1>1. TypeOK'
  BY RestKeeps DEF Keeps, IInv, SafeTable, TypeOK
<1>2. NoLeak' /\ MarkCovers' /\ OneOwner'
  BY DEF Keeps, Rest, IInv, SafeTable, TypeOK, NoLeak, MarkCovers, OneOwner, Excl, Fd
<1>3. FlagsAgree'
  BY DEF Keeps, Rest, AfterStartup, IInv, SafeTable, TypeOK, FlagsAgree, Excl, IsDev, STDERR_FILENO
<1> QED BY <1>1, <1>2, <1>3 DEF IInv, SafeTable

LEMMA OpensInv ==
  ASSUME IInv, Rest, Opens
  PROVE  IInv'
<1>1. PICK i \in Fd, dev \in Device, mode \in Mode,
           flags \in SUBSET (OpenFlags \union {"ALT_FD_DEV"}) :
        /\ Taken(alt_fd_list', alt_max_fd', i, dev, mode, flags)
        /\ held' = held \union {i}
  BY DEF Opens
<1> DEFINE entry == [dev |-> dev, mode |-> mode, flags |-> flags]
<1>2. /\ i > STDERR_FILENO /\ i <= alt_max_fd' /\ i \in Int
      /\ alt_fd_list[i].dev = None /\ alt_fd_list[i].flags = {}
      /\ alt_fd_list' = [alt_fd_list EXCEPT ![i] = entry]
      /\ entry \in alt_fd /\ dev # None
  BY <1>1, FreeIs, TableAssumption DEF Taken, alt_fd, FdFlag, Fd
<1>3. TypeOK'
  BY <1>1, <1>2, RestKeeps DEF IInv, SafeTable, TypeOK
<1>4. /\ alt_fd_list'[i] = entry
      /\ \A j \in Fd \ {i} : alt_fd_list'[j] = alt_fd_list[j]
  BY <1>2 DEF IInv, SafeTable, TypeOK
<1>5. NoLeak'
  BY <1>1, <1>2, <1>4 DEF IInv, SafeTable, NoLeak
<1>6. MarkCovers'
  BY <1>2, <1>4 DEF IInv, SafeTable, TypeOK, MarkCovers, Rest, Fd
<1>7. "ALT_FD_EXCL" \notin flags
  BY TableAssumption
<1>8. FlagsAgree'
  BY <1>1, <1>2, <1>4, <1>7
     DEF Rest, AfterStartup, Taken, IInv, SafeTable, TypeOK, FlagsAgree, Excl, IsDev, STDERR_FILENO
<1>9. OneOwner'
  <2> SUFFICES ASSUME NEW k \in Fd, NEW j \in Fd, k # j, Excl(k)',
                      alt_fd_list'[k].dev = alt_fd_list'[j].dev
               PROVE  k < alt_max_fd' /\ ~Excl(j)'
    BY DEF OneOwner
  <2>1. k # i /\ Excl(k)
    BY <1>4, <1>7 DEF Excl
  <2>2. CASE j # i
    BY <1>4, <2>1, <2>2 DEF IInv, SafeTable, TypeOK, OneOwner, Rest, Excl, Fd
  <2>3. CASE j = i
    <3>1. dev \notin FileSystem /\ k \in Nat /\ k <= alt_max_fd'
      BY <1>2, <1>4, <2>1, <2>3
         DEF IInv, SafeTable, TypeOK, MarkCovers, FlagsAgree, Rest, Fd, STDERR_FILENO
    <3>2. FALSE
      BY <1>1, <1>4, <2>1, <2>3, <3>1, TableAssumption DEF Taken, Rest, STDERR_FILENO
    <3> QED BY <3>2
  <2> QED BY <2>2, <2>3
<1> QED BY <1>3, <1>5, <1>6, <1>8, <1>9 DEF IInv, SafeTable

LEMMA RedirectsInv ==
  ASSUME IInv, Rest, Redirects
  PROVE  IInv'
<1>1. PICK i \in 0 .. STDERR_FILENO, dev \in Device, mode \in Mode,
           flags \in SUBSET (OpenFlags \union {"ALT_FD_DEV"}) :
        /\ step \notin AfterStartup
        /\ "ALT_FD_DEV" \in flags => dev \notin FileSystem /\ alt_max_fd' > STDERR_FILENO
        /\ SetEntry(i, [dev |-> dev, mode |-> mode, flags |-> flags])
        /\ UNCHANGED held
  BY DEF Redirects
<1> DEFINE entry == [dev |-> dev, mode |-> mode, flags |-> flags]
<1>2. /\ i \in Fd /\ i \in Int /\ ~(i > STDERR_FILENO)
      /\ alt_fd_list' = [alt_fd_list EXCEPT ![i] = entry]
      /\ entry \in alt_fd /\ dev # None
  BY <1>1, TableAssumption DEF SetEntry, alt_fd, FdFlag, Fd, STDERR_FILENO
<1>3. TypeOK'
  BY <1>1, <1>2, RestKeeps DEF IInv, SafeTable, TypeOK
<1>4. /\ alt_fd_list'[i] = entry
      /\ \A j \in Fd \ {i} : alt_fd_list'[j] = alt_fd_list[j]
  BY <1>2 DEF IInv, SafeTable, TypeOK
<1>5. NoLeak' /\ MarkCovers'
  BY <1>1, <1>2, <1>4 DEF IInv, SafeTable, TypeOK, NoLeak, MarkCovers, Rest, Fd
<1>6. \A j \in Fd : ~Excl(j)'
  BY <1>1, <1>4, TableAssumption DEF IInv, FlagsAgree, AfterStartup, Excl
<1>7. FlagsAgree'
  BY <1>1, <1>2, <1>4, <1>6
     DEF Rest, IInv, SafeTable, TypeOK, FlagsAgree, Excl, IsDev, STDERR_FILENO
<1> QED BY <1>3, <1>5, <1>6, <1>7 DEF IInv, SafeTable, OneOwner

LEMMA ClosesInv ==
  ASSUME IInv, Rest, Closes
  PROVE  IInv'
<1>1. PICK i \in held : SetEntry(i, FreeFd) /\ held' = held \ {i}
  BY DEF Closes
<1>2. /\ i \in Fd /\ i \in Int /\ i > STDERR_FILENO
      /\ alt_fd_list' = [alt_fd_list EXCEPT ![i] = FreeFd]
  BY <1>1, TableAssumption DEF SetEntry, IInv, SafeTable, TypeOK, NoLeak, Fd
<1>3. TypeOK'
  <2>1. alt_fd_list' \in [Fd -> alt_fd] /\ held' \subseteq Fd
    BY <1>1, <1>2, FreeIs DEF IInv, SafeTable, TypeOK
  <2>2. \A j \in 0 .. STDERR_FILENO : alt_fd_list'[j].dev # None
    BY <1>2 DEF IInv, SafeTable, TypeOK, STDERR_FILENO
  <2> QED BY <2>1, <2>2, RestKeeps
<1>4. /\ alt_fd_list'[i] = FreeFd
      /\ \A j \in Fd \ {i} : alt_fd_list'[j] = alt_fd_list[j]
  BY <1>2 DEF IInv, SafeTable, TypeOK
<1>5. NoLeak' /\ MarkCovers'
  BY <1>1, <1>2, <1>4, FreeIs DEF IInv, SafeTable, TypeOK, NoLeak, MarkCovers, Rest, Fd
<1>6. FlagsAgree'
  BY <1>2, <1>4, FreeIs DEF Rest, AfterStartup, IInv, SafeTable, TypeOK, FlagsAgree, Excl, IsDev, STDERR_FILENO
<1>7. OneOwner'
  <2> SUFFICES ASSUME NEW k \in Fd, NEW j \in Fd, k # j, Excl(k)',
                      alt_fd_list'[k].dev = alt_fd_list'[j].dev
               PROVE  k < alt_max_fd' /\ ~Excl(j)'
    BY DEF OneOwner
  <2>1. k # i /\ Excl(k) /\ alt_fd_list'[k].dev \in Device
    BY <1>4, FreeIs DEF Excl, IsDev, IInv, FlagsAgree
  <2>2. j # i
    BY <1>4, <2>1, FreeIs, TableAssumption
  <2> QED BY <1>4, <2>1, <2>2 DEF Rest, IInv, SafeTable, TypeOK, OneOwner, Excl, Fd
<1> QED BY <1>3, <1>5, <1>6, <1>7 DEF IInv, SafeTable

(* Setting the flags of one entry keeps everything but the ownership.      *)
LEMMA FlagsKeep ==
  ASSUME IInv, Rest, NEW i \in Usable, NEW flags \in SUBSET (OpenFlags \union FdFlag),
         SetFlags(i, flags), UNCHANGED held
  PROVE  /\ SafeTable'
         /\ i \in Fd /\ i \in Int
         /\ \A j \in Fd : /\ alt_fd_list'[j].dev = alt_fd_list[j].dev
                          /\ j # i => alt_fd_list'[j].flags = alt_fd_list[j].flags
         /\ alt_fd_list'[i].flags = flags
<1>1. i \in Fd /\ i \in Int /\ alt_fd_list[i].dev \in Device
  BY UsableIs
<1>2. /\ alt_fd_list \in [Fd -> alt_fd]
      /\ alt_fd_list' = [alt_fd_list EXCEPT ![i].flags = flags]
  BY DEF SetFlags, IInv, SafeTable, TypeOK
<1>3. /\ \A j \in Fd : /\ alt_fd_list'[j].dev = alt_fd_list[j].dev
                       /\ j # i => alt_fd_list'[j] = alt_fd_list[j]
      /\ alt_fd_list'[i].flags = flags
  BY <1>1, <1>2 DEF alt_fd
<1>4. alt_fd_list' \in [Fd -> alt_fd]
  BY <1>1, <1>2 DEF alt_fd
<1>5. TypeOK'
  <2>1. \A j \in 0 .. STDERR_FILENO : alt_fd_list'[j].dev # None
    BY <1>3, TableAssumption DEF IInv, SafeTable, TypeOK, Fd, STDERR_FILENO
  <2>2. held' \subseteq Fd
    BY DEF IInv, SafeTable, TypeOK
  <2> QED BY <1>4, <2>1, <2>2, RestKeeps
<1>6. NoLeak'
  BY <1>3 DEF IInv, SafeTable, NoLeak
<1>7. MarkCovers'
  BY <1>1, <1>3, TableAssumption DEF IInv, SafeTable, TypeOK, MarkCovers, Rest, Fd
<1> QED BY <1>1, <1>3, <1>5, <1>6, <1>7 DEF SafeTable

LEMMA LocksInv ==
  ASSUME IInv, Rest, Locks
  PROVE  IInv'
<1>1. PICK i \in Usable :
           /\ step \in AfterStartup /\ IsDev(i)
           /\ \A j \in 0 .. alt_max_fd - 1 : j # i => alt_fd_list[j].dev # alt_fd_list[i].dev
           /\ SetFlags(i, alt_fd_list[i].flags \union {"ALT_FD_EXCL"})
           /\ UNCHANGED held
  BY DEF Locks
<1> DEFINE new == alt_fd_list[i].flags \union {"ALT_FD_EXCL"}
<1>2. new \in SUBSET (OpenFlags \union FdFlag)
  BY UsableIs DEF IInv, SafeTable, TypeOK, alt_fd, FdFlag
<1>3. /\ SafeTable' /\ i \in Fd /\ i \in Int
      /\ \A j \in Fd : /\ alt_fd_list'[j].dev = alt_fd_list[j].dev
                       /\ j # i => alt_fd_list'[j].flags = alt_fd_list[j].flags
      /\ alt_fd_list'[i].flags = new
  BY <1>1, <1>2, FlagsKeep
<1>4. alt_max_fd > STDERR_FILENO /\ alt_fd_list[i].dev \in Device
  BY <1>1, <1>3 DEF IInv, FlagsAgree
<1>5. FlagsAgree'
  <2>1. \A j \in Fd : (IsDev(j)' <=> IsDev(j)) /\ (Excl(j)' => Excl(j) \/ j = i)
    BY <1>3 DEF IsDev, Excl
  <2>2. alt_max_fd \in Int /\ alt_max_fd' \in Int /\ alt_max_fd <= alt_max_fd'
    BY DEF Rest, IInv, SafeTable, TypeOK
  <2> QED BY <1>1, <1>3, <1>4, <2>1, <2>2 DEF Rest, AfterStartup, IInv, FlagsAgree, STDERR_FILENO
(* Whoever shares the device is the one entry the loop does not reach, so  *)
(* the new owner lies below it.                                            *)
<1>6. ASSUME NEW j \in Fd, j # i, alt_fd_list[j].dev = alt_fd_list[i].dev
      PROVE  i < alt_max_fd /\ ~Excl(j)
  <2>1. j \in Nat /\ i \in Nat /\ alt_max_fd \in Int /\ j <= alt_max_fd /\ i <= alt_max_fd
    BY <1>3, <1>4, <1>6, TableAssumption
       DEF IInv, SafeTable, TypeOK, MarkCovers, Fd, STDERR_FILENO
  <2>2. ~(j < alt_max_fd)
    BY <1>1, <1>6, <2>1
  <2>3. j = alt_max_fd
    BY <2>1, <2>2
  <2>4. ~Excl(j)
    BY <1>3, <1>6, <2>1, <2>3 DEF IInv, OneOwner
  <2> QED BY <1>6, <2>1, <2>3, <2>4
<1>7. OneOwner'
  <2> SUFFICES ASSUME NEW k \in Fd, NEW j \in Fd, k # j, Excl(k)',
                      alt_fd_list'[k].dev = alt_fd_list'[j].dev
               PROVE  k < alt_max_fd' /\ ~Excl(j)'
    BY DEF OneOwner
  <2>1. alt_max_fd \in Int /\ alt_max_fd' \in Int /\ alt_max_fd <= alt_max_fd' /\ k \in Int
    BY DEF Rest, IInv, SafeTable, TypeOK, Fd
  <2>2. CASE k = i
    BY <1>3, <1>6, <2>1, <2>2 DEF Excl
  <2>3. CASE k # i /\ j # i
    BY <1>3, <2>1, <2>3 DEF Excl, IInv, OneOwner
  <2>4. CASE k # i /\ j = i
    BY <1>3, <1>6, <2>1, <2>4 DEF Excl
  <2> QED BY <2>2, <2>3, <2>4
<1> QED BY <1>3, <1>5, <1>7 DEF IInv

(* Nobody becomes an owner by giving up a lock or changing other flags.    *)
LEMMA FewerOwnersInv ==
  ASSUME IInv, Rest, NEW i \in Usable, NEW flags \in SUBSET (OpenFlags \union FdFlag),
         SetFlags(i, flags), UNCHANGED held,
         "ALT_FD_DEV" \in flags <=> IsDev(i),
         "ALT_FD_EXCL" \in flags => Excl(i)
  PROVE  IInv'
<1>1. /\ SafeTable' /\ i \in Fd /\ i \in Int
      /\ \A j \in Fd : /\ alt_fd_list'[j].dev = alt_fd_list[j].dev
                       /\ j # i => alt_fd_list'[j].flags = alt_fd_list[j].flags
      /\ alt_fd_list'[i].flags = flags
  BY FlagsKeep
<1>2. \A j \in Fd : (IsDev(j)' <=> IsDev(j)) /\ (Excl(j)' => Excl(j))
  BY <1>1 DEF IsDev, Excl
<1>3. alt_max_fd \in Int /\ alt_max_fd' \in Int /\ alt_max_fd <= alt_max_fd'
  BY DEF Rest, IInv, SafeTable, TypeOK
<1>4. FlagsAgree'
  BY <1>1, <1>2, <1>3 DEF Rest, AfterStartup, IInv, FlagsAgree, STDERR_FILENO
<1>5. OneOwner'
  BY <1>1, <1>2, <1>3 DEF IInv, OneOwner, Fd
<1> QED BY <1>1, <1>4, <1>5 DEF IInv

LEMMA UnlocksInv ==
  ASSUME IInv, Rest, Unlocks
  PROVE  IInv'
<1>1. PICK i \in Usable : /\ SetFlags(i, alt_fd_list[i].flags \ {"ALT_FD_EXCL"})
                          /\ UNCHANGED held
  BY DEF Unlocks
<1>2. alt_fd_list[i].flags \in SUBSET (OpenFlags \union FdFlag)
  BY UsableIs DEF IInv, SafeTable, TypeOK, alt_fd
<1> QED BY <1>1, <1>2, FewerOwnersInv DEF IsDev, Excl

LEMMA SetsFlagsInv ==
  ASSUME IInv, Rest, SetsFlags
  PROVE  IInv'
<1>1. PICK i \in Usable, flags \in SUBSET OpenFlags :
        /\ SetFlags(i, (alt_fd_list[i].flags \ OpenFlags) \union flags)
        /\ UNCHANGED held
  BY DEF SetsFlags
<1>2. alt_fd_list[i].flags \in SUBSET (OpenFlags \union FdFlag)
  BY UsableIs DEF IInv, SafeTable, TypeOK, alt_fd
<1>3. "ALT_FD_DEV" \notin OpenFlags /\ "ALT_FD_EXCL" \notin OpenFlags
  BY TableAssumption
<1> QED BY <1>1, <1>2, <1>3, FewerOwnersInv DEF IsDev, Excl

LEMMA InitIInv == Init => IInv
<1> SUFFICES ASSUME Init PROVE IInv
  OBVIOUS
<1>1. /\ alt_fd_list \in [Fd -> alt_fd]
      /\ \A i \in Fd : /\ alt_fd_list[i].flags = {}
                       /\ i <= STDERR_FILENO => alt_fd_list[i].dev = NullDev
                       /\ ~(i <= STDERR_FILENO) => alt_fd_list[i] = FreeFd
  BY TableAssumption DEF Init, FreeFd, alt_fd, Mode
<1>2. NullDev # None /\ NullDev \in Device \ FileSystem /\ 0 .. STDERR_FILENO \subseteq Fd
  BY TableAssumption DEF Fd, STDERR_FILENO
<1>3. TypeOK
  BY <1>1, <1>2, TableAssumption DEF Init, TypeOK
<1>4. NoLeak /\ MarkCovers
  BY <1>1, <1>2, FreeIs DEF Init, NoLeak, MarkCovers, Fd, STDERR_FILENO
<1>5. FlagsAgree /\ OneOwner
  BY <1>1, <1>2 DEF Init, FlagsAgree, OneOwner, Excl, IsDev
<1> QED BY <1>3, <1>4, <1>5 DEF IInv, SafeTable

LEMMA NextIInv == IInv /\ [Next]_vars => IInv'
<1>1. ASSUME IInv, Next PROVE IInv'
  BY <1>1, StepEffect, KeepsInv, OpensInv, RedirectsInv, ClosesInv, LocksInv, UnlocksInv,
     SetsFlagsInv DEF Effect
<1>2. ASSUME IInv, UNCHANGED vars PROVE IInv'
  BY <1>2 DEF vars, IInv, SafeTable, TypeOK, NoLeak, MarkCovers, FlagsAgree, OneOwner, Excl, IsDev
<1> QED BY <1>1, <1>2

(* Every reachable state satisfies the inductive invariant.                *)
THEOREM Invariance == Spec => []IInv
BY InitIInv, NextIInv, PTL DEF Spec

(* What happens to memory leaves the table alone.                          *)
LEMMA TablePart == HalSpec => Spec
<1>1. HalInit => Init
  BY DEF HalInit
<1>2. [HalNext]_<<vars, memory>> => [Next]_vars
  BY DEF HalNext
<1> QED BY <1>1, <1>2, PTL DEF HalSpec, Spec

(* SafeTable of the run: whatever devices answer and in whatever order the *)
(* program opens, closes, locks and asks, the table keeps its type, no     *)
(* descriptor leaks, the standard streams always have a device, nothing in *)
(* use lies above alt_max_fd and a free entry carries no flags.            *)
THEOREM TableSound == HalSpec => []SafeTable
<1>1. IInv => SafeTable
  BY DEF IInv
<1> QED BY <1>1, TablePart, Invariance, PTL

-----------------------------------------------------------------------------
(* The table implements OpenFiles: users are the devices of the entries,   *)
(* and the owner of a device is the one entry that holds it exclusively.   *)

LEMMA OwnerIs ==
  IInv => \A d \in Device, i \in Fd : /\ Owner(d) = i <=> i \in Owners(d)
                                      /\ Owner(d) = None <=> Owners(d) = {}
<1> SUFFICES ASSUME IInv, NEW d \in Device, NEW i \in Fd
             PROVE  /\ Owner(d) = i <=> i \in Owners(d)
                    /\ Owner(d) = None <=> Owners(d) = {}
  OBVIOUS
<1>1. \A j, k \in Owners(d) : j = k
  BY DEF IInv, OneOwner, Owners, Excl
<1>2. Owners(d) \subseteq Fd /\ None \notin Fd
  BY TableAssumption DEF Owners, Fd
<1>3. CASE Owners(d) = {}
  BY <1>2, <1>3 DEF Owner, OneOf
<1>4. CASE Owners(d) # {}
  <2>1. Owner(d) \in Owners(d)
    BY <1>4 DEF Owner, OneOf
  <2> QED BY <1>1, <1>2, <1>4, <2>1
<1> QED BY <1>3, <1>4

(* While no device gains or loses an owner the mapped owner stays.         *)
LEMMA OwnerStays ==
  ASSUME \A d \in Device : Owners(d)' = Owners(d)
  PROVE  UNCHANGED owner
<1>1. \A d \in Device : Owner(d)' = Owner(d)
  BY DEF Owner
<1> QED BY <1>1 DEF owner

LEMMA KeepsMap ==
  ASSUME IInv, Keeps
  PROVE  UNCHANGED <<users, owner>>
<1>1. \A d \in Device : Owners(d)' = Owners(d)
  BY DEF Keeps, Owners
<1> QED BY <1>1, OwnerStays DEF Keeps, users

LEMMA OpensMap ==
  ASSUME IInv, Rest, Opens
  PROVE  \E h \in Fd, d \in Device : OF!Open(h, d)
<1>1. PICK i \in Fd, dev \in Device, mode \in Mode,
           flags \in SUBSET (OpenFlags \union {"ALT_FD_DEV"}) :
        Taken(alt_fd_list', alt_max_fd', i, dev, mode, flags)
  BY DEF Opens
<1> DEFINE entry == [dev |-> dev, mode |-> mode, flags |-> flags]
<1>2. /\ alt_fd_list \in [Fd -> alt_fd]
      /\ alt_fd_list' = [alt_fd_list EXCEPT ![i] = entry]
      /\ alt_fd_list[i].dev = None /\ alt_fd_list[i].flags = {}
      /\ "ALT_FD_EXCL" \notin flags
  BY <1>1, FreeIs, TableAssumption DEF Taken, IInv, SafeTable, TypeOK
<1>3. users[i] = None /\ users' = [users EXCEPT ![i] = dev]
  BY <1>2 DEF users
<1>4. \A d \in Device : Owners(d)' = Owners(d)
  BY <1>2 DEF Owners
<1>5. Owners(dev) = {}
  <2> SUFFICES ASSUME NEW k \in Fd, alt_fd_list[k].dev = dev, Excl(k)
               PROVE  FALSE
    BY DEF Owners, Excl
  <2>1. k # i /\ dev \notin FileSystem /\ k \in 0 .. alt_max_fd'
    BY <1>2, TableAssumption
       DEF Excl, IInv, SafeTable, TypeOK, MarkCovers, FlagsAgree, Rest, Fd, STDERR_FILENO
  <2> QED BY <1>1, <2>1 DEF Taken
<1>6. owner[dev] = None
  BY <1>5 DEF owner, Owner, OneOf
<1> QED BY <1>3, <1>4, <1>6, OwnerStays DEF OF!Open

LEMMA RedirectsMap ==
  ASSUME IInv, Rest, Redirects
  PROVE  \E h \in Fd, d \in Device : OF!Redirect(h, d)
<1>1. PICK i \in 0 .. STDERR_FILENO, dev \in Device, mode \in Mode,
           flags \in SUBSET (OpenFlags \union {"ALT_FD_DEV"}) :
        /\ step \notin AfterStartup
        /\ SetEntry(i, [dev |-> dev, mode |-> mode, flags |-> flags])
  BY DEF Redirects
<1> DEFINE entry == [dev |-> dev, mode |-> mode, flags |-> flags]
<1>2. /\ alt_fd_list \in [Fd -> alt_fd] /\ i \in Fd /\ i \in {0, 1, 2}
      /\ alt_fd_list' = [alt_fd_list EXCEPT ![i] = entry]
      /\ alt_fd_list[i].dev \in Device
      /\ "ALT_FD_EXCL" \notin flags /\ \A j \in Fd : "ALT_FD_EXCL" \notin alt_fd_list[j].flags
  <2>1. i \in Fd /\ i \in {0, 1, 2}
    BY TableAssumption DEF Fd, STDERR_FILENO
  <2>2. alt_fd_list \in [Fd -> alt_fd] /\ alt_fd_list[i].dev \in Device
    BY <2>1 DEF IInv, SafeTable, TypeOK, STDERR_FILENO, alt_fd
  <2>3. "ALT_FD_EXCL" \notin flags /\ \A j \in Fd : "ALT_FD_EXCL" \notin alt_fd_list[j].flags
    BY <1>1, TableAssumption DEF IInv, FlagsAgree, Excl, AfterStartup
  <2> QED BY <1>1, <2>1, <2>2, <2>3 DEF SetEntry
<1>3. users[i] \in Device /\ users' = [users EXCEPT ![i] = dev]
  BY <1>2 DEF users
<1>4. \A d \in Device : Owners(d)' = Owners(d) /\ Owners(d) = {}
  BY <1>2 DEF Owners
<1>5. \A d \in Device : owner[d] = None /\ None # i
  BY <1>2, <1>4, TableAssumption DEF owner, Owner, OneOf, Fd
<1> QED BY <1>2, <1>3, <1>4, <1>5, OwnerStays DEF OF!Redirect, OF!Standard

LEMMA ClosesMap ==
  ASSUME IInv, IInv', Closes
  PROVE  \E h \in Fd : OF!Close(h)
<1>1. PICK i \in held : SetEntry(i, FreeFd)
  BY DEF Closes
<1>2. /\ alt_fd_list \in [Fd -> alt_fd] /\ i \in Fd /\ i > STDERR_FILENO
      /\ alt_fd_list' = [alt_fd_list EXCEPT ![i] = FreeFd]
      /\ alt_fd_list[i].dev # None
  BY <1>1 DEF SetEntry, IInv, SafeTable, TypeOK, NoLeak
<1>3. users[i] # None /\ i \notin {0, 1, 2} /\ users' = [users EXCEPT ![i] = None]
  <2>1. i \notin {0, 1, 2} /\ users[i] # None
    BY <1>2 DEF users, STDERR_FILENO, Fd
  <2>2. users' = [users EXCEPT ![i] = None]
    BY <1>2, FreeIs DEF users
  <2> QED BY <2>1, <2>2
<1>4. \A d \in Device : Owners(d)' = Owners(d) \ {i}
  BY <1>2, FreeIs DEF Owners
<1>5. ASSUME NEW d \in Device
      PROVE  owner'[d] = IF owner[d] = i THEN None ELSE owner[d]
  <2>1. owner[d] = Owner(d) /\ owner'[d] = Owner(d)'
    BY DEF owner
  <2>2. CASE i \in Owners(d)
    <3>1. Owner(d) = i /\ Owners(d) = {i}
      BY <1>2, <2>2, OwnerIs DEF Owners
    <3>2. Owners(d)' = {}
      BY <1>4, <3>1
    <3>3. Owner(d)' = None
      BY <3>2 DEF Owner, OneOf
    <3> QED BY <2>1, <3>1, <3>3
  <2>3. CASE i \notin Owners(d)
    <3>1. Owners(d)' = Owners(d) /\ Owner(d) # i
      BY <1>2, <1>4, <2>3, OwnerIs
    <3>2. Owner(d)' = Owner(d)
      BY <3>1 DEF Owner
    <3> QED BY <2>1, <3>1, <3>2
  <2> QED BY <2>2, <2>3
<1>6. owner' = [d \in Device |-> IF owner[d] = i THEN None ELSE owner[d]]
  BY <1>5 DEF owner
<1> QED BY <1>2, <1>3, <1>6 DEF OF!Close, OF!Standard

(* An entry that changes only its flags keeps its device; its device's     *)
(* owners change by it alone.                                              *)
LEMMA FlagsMap ==
  ASSUME IInv, NEW i \in Usable, NEW flags, SetFlags(i, flags)
  PROVE  /\ UNCHANGED users /\ i \in Fd
         /\ \E dev \in Device :
              /\ users[i] = dev /\ alt_fd_list[i].dev = dev
              /\ \A d \in Device \ {dev} : Owners(d)' = Owners(d)
              /\ Owners(dev)' = IF "ALT_FD_EXCL" \in flags THEN Owners(dev) \union {i}
                               ELSE Owners(dev) \ {i}
<1>1. /\ alt_fd_list \in [Fd -> alt_fd] /\ i \in Fd /\ alt_fd_list[i].dev \in Device
      /\ alt_fd_list' = [alt_fd_list EXCEPT ![i].flags = flags]
  BY UsableIs DEF SetFlags, IInv, SafeTable, TypeOK
<1>2. /\ \A j \in Fd : /\ alt_fd_list'[j].dev = alt_fd_list[j].dev
                       /\ j # i => alt_fd_list'[j].flags = alt_fd_list[j].flags
      /\ alt_fd_list'[i].flags = flags
  BY <1>1 DEF alt_fd
<1>3. UNCHANGED users /\ users[i] = alt_fd_list[i].dev
  BY <1>1, <1>2 DEF users
<1>4. PICK dev \in Device : dev = alt_fd_list[i].dev
  BY <1>1
<1>5. \A d \in Device \ {dev} : Owners(d)' = Owners(d)
  BY <1>1, <1>2, <1>4 DEF Owners
<1>6. Owners(dev)' = IF "ALT_FD_EXCL" \in flags THEN Owners(dev) \union {i}
                     ELSE Owners(dev) \ {i}
  BY <1>1, <1>2, <1>4 DEF Owners
<1> QED BY <1>1, <1>3, <1>4, <1>5, <1>6

LEMMA LocksMap ==
  ASSUME IInv, IInv', Locks
  PROVE  UNCHANGED <<users, owner>> \/ \E h \in Fd : OF!Own(h)
<1>1. PICK i \in Usable : SetFlags(i, alt_fd_list[i].flags \union {"ALT_FD_EXCL"})
  BY DEF Locks
<1>2. UNCHANGED users /\ i \in Fd
  BY <1>1, FlagsMap
<1>3. PICK dev \in Device :
        /\ users[i] = dev
        /\ \A d \in Device \ {dev} : Owners(d)' = Owners(d)
        /\ Owners(dev)' = Owners(dev) \union {i}
  BY <1>1, FlagsMap
<1>4. CASE i \in Owners(dev)
  BY <1>2, <1>3, <1>4, OwnerStays
<1>5. CASE i \notin Owners(dev)
  <2>1. Owners(dev) = {}
    <3> SUFFICES ASSUME NEW k \in Owners(dev)
                 PROVE  FALSE
      OBVIOUS
    <3>1. k \in Owners(dev)' /\ i \in Owners(dev)' /\ k # i
      BY <1>2, <1>3, <1>5
    <3> QED BY <3>1 DEF IInv, OneOwner, Owners, Excl
  <2>2. Owners(dev)' = {i}
    BY <1>2, <1>3, <2>1
  <2>3. Owner(dev) = None /\ Owner(dev)' = i
    BY <2>1, <2>2 DEF Owner, OneOf
  <2>4. \A d \in Device \ {dev} : Owner(d)' = Owner(d)
    BY <1>3 DEF Owner
  <2>5. owner[dev] = None /\ owner' = [owner EXCEPT ![dev] = i]
    BY <1>2, <1>3, <2>3, <2>4 DEF owner
  <2>6. users[i] # None /\ users[i] = dev
    BY <1>3, TableAssumption
  <2> QED BY <1>2, <1>3, <2>5, <2>6 DEF OF!Own
<1> QED BY <1>4, <1>5

LEMMA UnlocksMap ==
  ASSUME IInv, Unlocks
  PROVE  UNCHANGED <<users, owner>> \/ \E h \in Fd : OF!Disown(h)
<1>1. PICK i \in Usable : SetFlags(i, alt_fd_list[i].flags \ {"ALT_FD_EXCL"})
  BY DEF Unlocks
<1>2. UNCHANGED users /\ i \in Fd
  BY <1>1, FlagsMap
<1>3. PICK dev \in Device :
        /\ users[i] = dev
        /\ \A d \in Device \ {dev} : Owners(d)' = Owners(d)
        /\ Owners(dev)' = Owners(dev) \ {i}
  BY <1>1, FlagsMap
<1>4. CASE i \notin Owners(dev)
  BY <1>2, <1>3, <1>4, OwnerStays
<1>5. CASE i \in Owners(dev)
  <2>1. Owners(dev) = {i} /\ Owner(dev) = i
    BY <1>2, <1>3, <1>5, OwnerIs DEF Owners
  <2>2. Owners(dev)' = {}
    BY <1>2, <1>3, <2>1
  <2>3. Owner(dev)' = None
    BY <2>2 DEF Owner, OneOf
  <2>4. \A d \in Device \ {dev} : Owner(d)' = Owner(d)
    BY <1>3 DEF Owner
  <2>5. owner[dev] = i /\ owner' = [owner EXCEPT ![dev] = None]
    BY <1>2, <1>3, <2>1, <2>3, <2>4 DEF owner
  <2>6. users[i] # None /\ users[i] = dev
    BY <1>3, TableAssumption
  <2> QED BY <1>2, <1>3, <2>5, <2>6 DEF OF!Disown
<1> QED BY <1>4, <1>5

LEMMA SetsFlagsMap ==
  ASSUME IInv, SetsFlags
  PROVE  UNCHANGED <<users, owner>>
<1>1. PICK i \in Usable, flags \in SUBSET OpenFlags :
        SetFlags(i, (alt_fd_list[i].flags \ OpenFlags) \union flags)
  BY DEF SetsFlags
<1> DEFINE new == (alt_fd_list[i].flags \ OpenFlags) \union flags
<1>2. UNCHANGED users /\ i \in Fd
  BY <1>1, FlagsMap
<1>3. PICK dev \in Device :
        /\ alt_fd_list[i].dev = dev
        /\ \A d \in Device \ {dev} : Owners(d)' = Owners(d)
        /\ Owners(dev)' = IF "ALT_FD_EXCL" \in new THEN Owners(dev) \union {i}
                         ELSE Owners(dev) \ {i}
  BY <1>1, FlagsMap
<1>4. "ALT_FD_EXCL" \in new <=> i \in Owners(dev)
  BY <1>2, <1>3, TableAssumption DEF Owners
<1>5. \A d \in Device : Owners(d)' = Owners(d)
  BY <1>3, <1>4
<1> QED BY <1>2, <1>5, OwnerStays

LEMMA InitMap == Init => OF!Init
<1> SUFFICES ASSUME Init PROVE OF!Init
  OBVIOUS
<1>1. NullDev \in Device /\ None \notin Device /\ {0, 1, 2} \subseteq Fd
  BY TableAssumption DEF Fd
<1>2. \A i \in Fd : /\ alt_fd_list[i].dev = IF i \in {0, 1, 2} THEN NullDev ELSE None
                    /\ alt_fd_list[i].flags = {}
  BY FreeIs DEF Init, FreeFd, Fd, STDERR_FILENO
<1>3. \A d \in Device : Owners(d) = {}
  BY <1>2 DEF Owners
<1>4. owner = [d \in Device |-> None]
  BY <1>3 DEF owner, Owner, OneOf
<1>5. users \in [Fd -> Device \union {None}] /\ \A i \in Fd : users[i] # None <=> i \in {0, 1, 2}
  BY <1>1, <1>2 DEF users
<1> QED BY <1>4, <1>5 DEF OF!Init, OF!Standard

LEMMA StepMap == IInv /\ IInv' /\ [Next]_vars => [OF!Next]_(OF!vars)
<1>1. ASSUME IInv, IInv', Next
      PROVE  OF!Next \/ UNCHANGED <<users, owner>>
  <2>1. Rest /\ Effect
    BY <1>1, StepEffect
  <2>2. CASE Keeps
    BY <1>1, <2>2, KeepsMap
  <2>3. CASE Opens
    BY <1>1, <2>1, <2>3, OpensMap DEF OF!Next
  <2>4. CASE Redirects
    BY <1>1, <2>1, <2>4, RedirectsMap DEF OF!Next
  <2>5. CASE Closes
    BY <1>1, <2>5, ClosesMap DEF OF!Next
  <2>6. CASE Locks
    BY <1>1, <2>6, LocksMap DEF OF!Next
  <2>7. CASE Unlocks
    BY <1>1, <2>7, UnlocksMap DEF OF!Next
  <2>8. CASE SetsFlags
    BY <1>1, <2>8, SetsFlagsMap
  <2> QED BY <2>1, <2>2, <2>3, <2>4, <2>5, <2>6, <2>7, <2>8 DEF Effect
<1>2. ASSUME UNCHANGED vars
      PROVE  UNCHANGED <<users, owner>>
  <2>1. \A d \in Device : Owners(d)' = Owners(d)
    BY <1>2 DEF vars, Owners
  <2> QED BY <1>2, <2>1, OwnerStays DEF vars, users
<1> QED BY <1>1, <1>2 DEF OF!vars

(* ImplementsOpenFiles of the run: a descriptor stays with its device from *)
(* open to close, a locked device gets no new descriptor and no second     *)
(* owner, although the loop of alt_fd_lock stops one short of alt_max_fd   *)
(* (alt_fd_lock.c:61).                                                     *)
THEOREM Refinement == HalSpec => ImplementsOpenFiles
BY TablePart, InitMap, StepMap, Invariance, PTL DEF Spec, ImplementsOpenFiles, OF!Spec

-----------------------------------------------------------------------------
(* Addresses and lines.                                                    *)

LEMMA Sizes == /\ LineWords \in Nat \ {0} /\ DSets \in Nat \ {0} /\ ISets \in Nat \ {0}
               /\ Buffer \subseteq Region /\ ProgramData \in Region /\ Flash \in Region
                  /\ Code \in Region
BY MemoryAssumption DEF RegionsApart

LEMMA WordsNat == ASSUME NEW r \in Region PROVE Mem!Words(r) \subseteq Nat
BY DEF Mem!Words, Region

LEMMA AllWordsNat == Mem!AllWords \subseteq Nat
BY Sizes, WordsNat DEF Mem!AllWords

LEMMA LineNat == ASSUME NEW w \in Nat
                 PROVE  /\ Mem!Line(w) \in Nat
                        /\ Mem!Line(w) % DSets \in 0 .. DSets - 1
                           /\ Mem!Line(w) % ISets \in 0 .. ISets - 1
<1>1. Mem!Line(w) \in Nat
  BY Sizes DEF Mem!Line
<1> QED BY <1>1, Sizes

LEMMA LineIs == ASSUME NEW w \in Nat, NEW l \in Nat
                PROVE  w \in Mem!LineOf(l) <=> Mem!Line(w) = l
<1> DEFINE q == w \div LineWords
           r == w % LineWords
<1>1. LineWords \in Nat \ {0} /\ q \in Nat /\ r \in 0 .. LineWords - 1 /\ w = LineWords * q + r
  BY Sizes
<1> HIDE DEF q, r
<1>2. CASE q < l
  <2>1. LineWords * q + LineWords = LineWords * (q + 1)
        /\ l * LineWords - LineWords * (q + 1) = LineWords * (l - (q + 1))
    BY <1>1
  <2>2. LineWords * (l - (q + 1)) \in Nat
    BY <1>1, <1>2
  <2>3. LineWords * q \in Nat /\ l * LineWords \in Nat
    BY <1>1
  <2> HIDE DEF q
  <2>4. w < l * LineWords
    BY <1>1, <2>1, <2>2, <2>3
  <2> QED BY <2>3, <2>4, <1>2, <1>1 DEF Mem!LineOf, Mem!Line, q
<1>3. CASE l < q
  <2>1. l * LineWords + LineWords = LineWords * (l + 1)
        /\ LineWords * q - LineWords * (l + 1) = LineWords * (q - (l + 1))
    BY <1>1
  <2>2. LineWords * (q - (l + 1)) \in Nat
    BY <1>1, <1>3
  <2>3. LineWords * q \in Nat /\ l * LineWords \in Nat
    BY <1>1
  <2>4. w >= l * LineWords + LineWords
    BY <1>1, <2>1, <2>2, <2>3
  <2> QED BY <2>3, <2>4, <1>3, <1>1 DEF Mem!LineOf, Mem!Line, q
<1>4. CASE l = q
  <2>1. l * LineWords = LineWords * q /\ LineWords * q \in Nat
    BY <1>1, <1>4
  <2> QED BY <1>1, <1>4, <2>1 DEF Mem!LineOf, Mem!Line, q
<1> QED BY <1>1, <1>2, <1>3, <1>4

(* The lines of a range are consecutive.                                   *)
LEMMA LineAdd == ASSUME NEW w \in Nat, NEW k \in Nat
                 PROVE  Mem!Line(w + LineWords * k) = Mem!Line(w) + k /\ w + LineWords * k \in Nat
<1> DEFINE q == w \div LineWords
           r == w % LineWords
<1>1. LineWords \in Nat \ {0} /\ q \in Nat /\ r \in 0 .. LineWords - 1 /\ w = LineWords * q + r
  BY Sizes
<1> HIDE DEF q, r
<1>2. w + LineWords * k = LineWords * (q + k) + r /\ LineWords * k \in Nat
  BY <1>1
<1>3. (q + k) * LineWords = LineWords * (q + k) /\ LineWords * (q + k) \in Nat /\ q + k \in Nat
  BY <1>1
<1>4. w + LineWords * k \in Mem!LineOf(q + k)
  BY <1>1, <1>2, <1>3 DEF Mem!LineOf
<1>5. Mem!Line(w + LineWords * k) = q + k
  BY <1>2, <1>3, <1>4, LineIs
<1> QED BY <1>2, <1>5 DEF q, Mem!Line

LEMMA LineMono == ASSUME NEW v \in Nat, NEW w \in Nat, v <= w PROVE Mem!Line(v) <= Mem!Line(w)
<1> SUFFICES ASSUME Mem!Line(w) < Mem!Line(v) PROVE FALSE
  BY LineNat
<1>1. Mem!Line(v) \in Nat /\ Mem!Line(w) \in Nat /\ LineWords \in Nat \ {0}
  BY LineNat, Sizes
<1>2. v \in Mem!LineOf(Mem!Line(v)) /\ w \in Mem!LineOf(Mem!Line(w))
  BY LineIs, <1>1
<1>3. Mem!Line(v) * LineWords <= v /\ w < Mem!Line(w) * LineWords + LineWords
  BY <1>2, <1>1 DEF Mem!LineOf
<1> DEFINE a == Mem!Line(v)
           b == Mem!Line(w)
<1>4. a \in Nat /\ b \in Nat /\ b < a
  BY <1>1
<1>7. a * LineWords <= v /\ w < b * LineWords + LineWords
  BY <1>3
<1> HIDE DEF a, b
<1>5. a * LineWords - (b * LineWords + LineWords) = (a - (b + 1)) * LineWords
      /\ (a - (b + 1)) * LineWords \in Nat
  BY <1>1, <1>4
<1>6. a * LineWords \in Nat /\ b * LineWords \in Nat
  BY <1>1, <1>4
<1> DEFINE m == a * LineWords
           n == b * LineWords
<1>8. m \in Nat /\ n \in Nat /\ m <= v /\ w < n + LineWords /\ m - (n + LineWords) \in Nat
  BY <1>5, <1>6, <1>7
<1> HIDE DEF m, n
<1> QED BY <1>1, <1>8

LEMMA LineFrom == ASSUME NEW w \in Nat, NEW l \in Nat, l <= Mem!Line(w) PROVE l * LineWords <= w
<1> DEFINE q == w \div LineWords
           r == w % LineWords
<1>1. LineWords \in Nat \ {0} /\ q \in Nat /\ r \in 0 .. LineWords - 1 /\ w = LineWords * q + r
  BY Sizes
<1>2. l <= q
  BY DEF Mem!Line
<1> HIDE DEF q, r
<1>3. LineWords * q - l * LineWords = LineWords * (q - l) /\ LineWords * (q - l) \in Nat
  BY <1>1, <1>2
<1>4. l * LineWords \in Nat /\ LineWords * q \in Nat
  BY <1>1
<1> QED BY <1>1, <1>3, <1>4

(* The loop of a flush visits every line that holds a word of the range.   *)
LEMMA VisitedIs ==
  ASSUME NEW start \in Nat, NEW len \in Nat
  PROVE  \E n \in Int :
           /\ Mem!Visited(start, len) = {start + LineWords * k : k \in 0 .. n}
           /\ len > 0 => n \in Nat
           /\ \A w \in start .. start + len - 1 : Mem!Line(w) <= Mem!Line(start) + n
           /\ \A d \in Nat : len = d * LineWords => n >= d - 1
<1> DEFINE m == (len + LineWords - 1) \div LineWords
           n == IF start % LineWords = 0 THEN m - 1 ELSE m
<1>1. LineWords \in Nat \ {0}
  BY Sizes
<1>2. m \in Nat /\ LineWords * m \in Nat /\ len <= LineWords * m
  <2> DEFINE r == (len + LineWords - 1) % LineWords
  <2>1. m \in Nat /\ r \in 0 .. LineWords - 1 /\ len + LineWords - 1 = LineWords * m + r
    BY <1>1
  <2> HIDE DEF m, r
  <2>2. LineWords * m \in Nat
    BY <1>1, <2>1
  <2> QED BY <1>1, <2>1, <2>2
<1>3. Mem!Visited(start, len) = {start + LineWords * k : k \in 0 .. n}
  BY DEF Mem!Visited
<1> HIDE DEF m
<1>4. n \in Int /\ (len > 0 => n \in Nat)
  <2>1. m = 0 => LineWords * m = 0
    BY <1>1
  <2> QED BY <1>2, <2>1
<1>5. ASSUME NEW w \in start .. start + len - 1
      PROVE  Mem!Line(w) <= Mem!Line(start) + n
  <2> SUFFICES ASSUME Mem!Line(start) + n + 1 <= Mem!Line(w) PROVE FALSE
    BY <1>4, LineNat
  <2> DEFINE q == start \div LineWords
             r == start % LineWords
  <2>1. q \in Nat /\ r \in 0 .. LineWords - 1 /\ start = LineWords * q + r
    BY <1>1
  <2>2. Mem!Line(start) = q
    BY DEF Mem!Line
  <2>3. n + 1 = IF r = 0 THEN m ELSE m + 1
    BY <1>2
  <2> HIDE DEF n, q, r
  <2>4. q + (n + 1) \in Nat /\ w \in Nat
    BY <1>2, <2>1, <2>3
  <2>5. (q + (n + 1)) * LineWords <= w
    BY <2>1, <2>2, <2>4, <1>4, LineFrom
  <2>6. (q + m) * LineWords = LineWords * q + LineWords * m
        /\ (q + (m + 1)) * LineWords = LineWords * q + LineWords * m + LineWords
    BY <1>1, <1>2, <2>1
  <2>7. LineWords * q \in Nat
    BY <1>1, <2>1
  <2> DEFINE a == LineWords * q
             b == LineWords * m
  <2>8. a \in Nat /\ b \in Nat /\ len <= b /\ start = a + r /\ (IF r = 0 THEN a + b
        ELSE a + b + LineWords) <= w
    BY <1>2, <2>1, <2>3, <2>5, <2>6, <2>7
  <2> HIDE DEF a, b
  <2> QED BY <1>1, <2>1, <2>8
<1>6. ASSUME NEW d \in Nat, len = d * LineWords PROVE n >= d - 1
  <2> SUFFICES ASSUME m < d PROVE FALSE
    BY <1>2
  <2>1. d * LineWords - LineWords * m = LineWords * (d - m) /\ LineWords * (d - m) > 0
    BY <1>1, <1>2
  <2>2. d * LineWords \in Nat
    BY <1>1
  <2> DEFINE a == d * LineWords
             b == LineWords * m
  <2>3. a \in Nat /\ b \in Nat /\ a <= b /\ a - b > 0
    BY <1>2, <1>6, <2>1, <2>2
  <2> HIDE DEF a, b
  <2> QED BY <2>3
<1> HIDE DEF n
<1> QED BY <1>1, <1>3, <1>4, <1>5, <1>6

(* Every line from the first to the last.                                  *)
LEMMA Covers ==
  ASSUME NEW start \in Nat, NEW len \in Nat, NEW w \in start .. start + len - 1
  PROVE  \E v \in Mem!Visited(start, len) : v \in Nat /\ Mem!Line(v) = Mem!Line(w)
<1>1. PICK n \in Int : /\ Mem!Visited(start, len) = {start + LineWords * k : k \in 0 .. n}
                       /\ \A x \in start .. start + len - 1 : Mem!Line(x) <= Mem!Line(start) + n
  BY VisitedIs
<1>2. w \in Nat /\ start <= w
  OBVIOUS
<1>3. Mem!Line(start) \in Nat /\ Mem!Line(w) \in Nat /\ Mem!Line(start) <= Mem!Line(w)
      /\ Mem!Line(w) <= Mem!Line(start) + n
  BY <1>1, <1>2, LineNat, LineMono
<1> DEFINE k == Mem!Line(w) - Mem!Line(start)
<1>4. k \in 0 .. n /\ k \in Nat /\ Mem!Line(start) + k = Mem!Line(w)
  BY <1>3
<1> HIDE DEF k
<1>5. Mem!Line(start + LineWords * k) = Mem!Line(w) /\ start + LineWords * k \in Nat
  BY <1>4, LineAdd
<1> QED BY <1>1, <1>4, <1>5

LEMMA VisitedNat ==
  ASSUME NEW start \in Nat, NEW len \in Nat, NEW v \in Mem!Visited(start, len)
  PROVE  v \in Nat
<1>1. PICK n \in Int : Mem!Visited(start, len) = {start + LineWords * k : k \in 0 .. n}
  BY VisitedIs
<1>2. PICK k \in 0 .. n : v = start + LineWords * k
  BY <1>1
<1> QED BY <1>2, LineAdd

(* Any number of consecutive lines as large as the cache fills every set.  *)
LEMMA EverySet ==
  ASSUME NEW size \in Nat \ {0}, NEW a \in Nat, NEW x \in 0 .. size - 1
  PROVE  \E k \in 0 .. size - 1 : (a + k) % size = x
<1> DEFINE q == a \div size
           r == a % size
           k == IF x >= r THEN x - r ELSE x - r + size
<1>1. q \in Nat /\ r \in 0 .. size - 1 /\ a = size * q + r
  OBVIOUS
<1>2. k \in 0 .. size - 1 /\ (r + k = x \/ r + k = x + size)
  BY <1>1
<1>3. ASSUME NEW p \in Nat PROVE (size * p + x) % size = x
  BY <1>3
<1> HIDE DEF q, r, k
<1>4. CASE r + k = x
  <2>1. a + k = size * q + x
    BY <1>1, <1>2, <1>4
  <2> QED BY <1>1, <1>2, <1>3, <2>1
<1>5. CASE r + k = x + size
  <2>1. a + k = size * (q + 1) + x /\ q + 1 \in Nat
    BY <1>1, <1>2, <1>5
  <2> QED BY <1>2, <1>3, <2>1
<1> QED BY <1>2, <1>4, <1>5

(* flushd on a range: the sets of all its lines, or all sets.              *)
LEMMA VisitedSetsAre ==
  ASSUME NEW start \in Nat, NEW len \in Nat, NEW size \in Nat \ {0}
  PROVE  /\ Mem!VisitedSets(start, len, size) \subseteq 0 .. size - 1
         /\ \A w \in start .. start + len - 1 :
            Mem!Line(w) % size \in Mem!VisitedSets(start, len, size)
         /\ len = size * LineWords => Mem!VisitedSets(start, len, size) = 0 .. size - 1
<1> DEFINE all == size * LineWords
           cap == IF len > all THEN all ELSE len
<1>1. all \in Nat /\ LineWords \in Nat
  BY Sizes
<1>2. cap \in Nat /\ (len > all => cap = all) /\ (~(len > all) => cap = len)
  BY <1>1
<1>3. Mem!VisitedSets(start, len, size) = {Mem!Line(a) % size : a \in Mem!Visited(start, cap)}
  BY DEF Mem!VisitedSets
<1> HIDE DEF cap
<1>4. ASSUME NEW a \in Nat PROVE Mem!Line(a) % size \in 0 .. size - 1
  <2>1. Mem!Line(a) \in Nat
    BY LineNat
  <2> QED BY <2>1
<1>5. Mem!VisitedSets(start, len, size) \subseteq 0 .. size - 1
  BY <1>2, <1>3, <1>4, VisitedNat
<1>6. ASSUME cap = all PROVE Mem!VisitedSets(start, len, size) = 0 .. size - 1
  <2>1. PICK n \in Int : /\ Mem!Visited(start, cap) = {start + LineWords * k : k \in 0 .. n}
                         /\ \A d \in Nat : cap = d * LineWords => n >= d - 1
    BY <1>2, VisitedIs
  <2>2. n >= size - 1
    BY <1>6, <2>1
  <2>3. ASSUME NEW x \in 0 .. size - 1 PROVE x \in Mem!VisitedSets(start, len, size)
    <3>1. PICK k \in 0 .. size - 1 : (Mem!Line(start) + k) % size = x
      BY LineNat, EverySet
    <3>2. k \in 0 .. n /\ k \in Nat
      BY <2>2
    <3>3. Mem!Line(start + LineWords * k) = Mem!Line(start) + k
      BY <3>2, LineAdd
    <3> QED BY <1>3, <2>1, <3>1, <3>2, <3>3
  <2> QED BY <1>5, <2>3
<1>7. ASSUME NEW w \in start .. start + len - 1, cap = len
      PROVE  Mem!Line(w) % size \in Mem!VisitedSets(start, len, size)
  <2>1. PICK v \in Mem!Visited(start, cap) : Mem!Line(v) = Mem!Line(w)
    BY <1>7, Covers
  <2> QED BY <1>3, <2>1
<1>8. ASSUME NEW w \in start .. start + len - 1
      PROVE  Mem!Line(w) % size \in Mem!VisitedSets(start, len, size)
  <2>1. CASE len > all
    <3>1. w \in Nat
      OBVIOUS
    <3> QED BY <1>2, <1>4, <1>6, <2>1, <3>1
  <2> QED BY <1>2, <1>7, <2>1
<1>9. len = all => cap = all
  BY <1>1, <1>2
<1> QED BY <1>5, <1>6, <1>8, <1>9

-----------------------------------------------------------------------------
(* What a cache operation does to one word.                                *)

Stores == [mem : SUBSET Mem!AllWords, lines : [0 .. DSets - 1 -> Mem!Lines]]

Wf(s) == /\ s \in Stores
         /\ \A x \in 0 .. DSets - 1 :
              s.lines[x] # Mem!Empty => /\ s.lines[x].line \in Nat /\ s.lines[x].line % DSets = x
                                        /\ s.lines[x].fresh \subseteq Mem!LineOf(s.lines[x].line) \intersect Mem!AllWords

LineAt(s, w) == s.lines[Mem!Line(w) % DSets]
IsCached(s, w) == LineAt(s, w).line = Mem!Line(w)
IsFresh(s, w) == w \in LineAt(s, w).fresh

Alike(s, t, w) == /\ IsCached(t, w) <=> IsCached(s, w)
                  /\ IsCached(s, w) => /\ IsFresh(t, w) <=> IsFresh(s, w)
                                       /\ LineAt(t, w).dirty = LineAt(s, w).dirty
                  /\ w \in t.mem <=> w \in s.mem
Evicted(s, t, w) == /\ IsCached(s, w) /\ ~IsCached(t, w)
                    /\ w \in t.mem <=> IF LineAt(s, w).dirty THEN IsFresh(s, w) ELSE w \in s.mem
Brought(s, t, w) == /\ ~IsCached(s, w) /\ IsCached(t, w) /\ ~LineAt(t, w).dirty
                    /\ IsFresh(t, w) <=> w \in s.mem
                    /\ w \in t.mem <=> w \in s.mem

LEMMA EmptyIs == /\ Mem!Empty \in Mem!Lines /\ Mem!Empty.line = -1
                 /\ Mem!Empty.dirty = FALSE /\ Mem!Empty.fresh = {}
BY DEF Mem!Empty, Mem!Lines

LEMMA NeverEmpty == ASSUME NEW w \in Nat PROVE Mem!Line(w) # -1
BY LineNat

LEMMA LineAtIs ==
  ASSUME NEW s, Wf(s), NEW w \in Mem!AllWords
  PROVE  /\ w \in Nat /\ Mem!Line(w) \in Nat /\ Mem!Line(w) % DSets \in 0 .. DSets - 1
         /\ LineAt(s, w) \in Mem!Lines
         /\ IsCached(s, w) => LineAt(s, w) # Mem!Empty
<1>1. w \in Nat
  BY AllWordsNat
<1>2. Mem!Line(w) \in Nat /\ Mem!Line(w) % DSets \in 0 .. DSets - 1
  BY <1>1, LineNat
<1>3. s.lines \in [0 .. DSets - 1 -> Mem!Lines]
  BY DEF Wf, Stores
<1>4. LineAt(s, w) \in Mem!Lines
  BY <1>2, <1>3 DEF LineAt
<1>5. IsCached(s, w) => LineAt(s, w) # Mem!Empty
  BY <1>2, EmptyIs DEF IsCached
<1> QED BY <1>1, <1>2, <1>4, <1>5

(* A line that holds the word is its own.                                  *)
LEMMA OnlyLine ==
  ASSUME NEW s, Wf(s), NEW w \in Mem!AllWords, NEW x \in 0 .. DSets - 1, s.lines[x] # Mem!Empty,
         w \in Mem!LineOf(s.lines[x].line)
  PROVE  x = Mem!Line(w) % DSets /\ IsCached(s, w)
<1>1. w \in Nat /\ s.lines[x].line \in Nat /\ s.lines[x].line % DSets = x
  BY LineAtIs DEF Wf
<1>2. Mem!Line(w) = s.lines[x].line
  BY <1>1, LineIs
<1> QED BY <1>1, <1>2 DEF IsCached, LineAt

LEMMA FlushedIs ==
  ASSUME NEW s, Wf(s), NEW sets \in SUBSET (0 .. DSets - 1), NEW t, t = Mem!Flushed(s, sets)
  PROVE  /\ Wf(t)
         /\ \A x \in 0 .. DSets - 1 : t.lines[x] = IF x \in sets THEN Mem!Empty ELSE s.lines[x]
         /\ \A w \in Mem!AllWords : /\ Alike(s, t, w) \/ Evicted(s, t, w)
                                    /\ Mem!Line(w) % DSets \in sets => ~IsCached(t, w)
<1> DEFINE dirty == {x \in sets : s.lines[x].dirty}
<1>1. /\ t = [mem |-> (s.mem \ UNION {Mem!LineOf(s.lines[x].line) : x \in dirty})
                         \union UNION {s.lines[x].fresh : x \in dirty},
              lines |-> Mem!Dropped(s.lines, sets)]
  BY DEF Mem!Flushed
<1>2. s.mem \subseteq Mem!AllWords /\ s.lines \in [0 .. DSets - 1 -> Mem!Lines]
  BY DEF Wf, Stores
<1>3. t.lines = [x \in 0 .. DSets - 1 |-> IF x \in sets THEN Mem!Empty ELSE s.lines[x]]
  BY <1>1, <1>2 DEF Mem!Dropped
<1>4. t.lines \in [0 .. DSets - 1 -> Mem!Lines]
  BY <1>2, <1>3, EmptyIs
<1>5. \A x \in dirty : s.lines[x] # Mem!Empty
  BY <1>2, EmptyIs
<1>6. t.mem \subseteq Mem!AllWords
  <2>1. \A x \in dirty : s.lines[x].fresh \subseteq Mem!AllWords
    BY <1>5 DEF Wf
  <2>2. t.mem = (s.mem \ UNION {Mem!LineOf(s.lines[x].line) : x \in dirty})
                 \union UNION {s.lines[x].fresh : x \in dirty}
    BY <1>1
  <2>3. ASSUME NEW w \in UNION {s.lines[x].fresh : x \in dirty}
        PROVE  w \in Mem!AllWords
    BY <2>1, <2>3
  <2> HIDE DEF dirty
  <2> QED BY <1>2, <2>2, <2>3
<1>7. Wf(t)
  <2>1. t \in Stores
    BY <1>1, <1>4, <1>6 DEF Stores
  <2> QED BY <1>3, <2>1 DEF Wf
<1>8. ASSUME NEW w \in Mem!AllWords
      PROVE  /\ Alike(s, t, w) \/ Evicted(s, t, w)
             /\ Mem!Line(w) % DSets \in sets => ~IsCached(t, w)
  <2> DEFINE x == Mem!Line(w) % DSets
  <2>1. x \in 0 .. DSets - 1 /\ Mem!Line(w) \in Nat /\ w \in Nat
    BY LineAtIs
  <2>2. LineAt(t, w) = IF x \in sets THEN Mem!Empty ELSE LineAt(s, w)
    BY <1>3, <2>1 DEF LineAt
  <2>3. x \in sets => ~IsCached(t, w)
    BY <2>1, <2>2, EmptyIs DEF IsCached
  <2>4. w \in t.mem <=> \/ w \in s.mem /\ ~\E y \in dirty : w \in Mem!LineOf(s.lines[y].line)
                        \/ \E y \in dirty : w \in s.lines[y].fresh
    BY <1>1
  <2>5. ASSUME NEW y \in dirty, w \in Mem!LineOf(s.lines[y].line)
        PROVE  y = x /\ IsCached(s, w)
    BY <1>5, <2>5, OnlyLine
  <2>6. ASSUME NEW y \in dirty, w \in s.lines[y].fresh
        PROVE  y = x /\ IsCached(s, w)
    <3>1. w \in Mem!LineOf(s.lines[y].line)
      BY <1>5, <2>6 DEF Wf
    <3> QED BY <3>1, <2>5
  <2>7. CASE x \in dirty /\ IsCached(s, w)
    <3>1. w \in Mem!LineOf(s.lines[x].line)
      BY <2>1, <2>7, LineIs DEF IsCached, LineAt
    <3>2. w \in t.mem <=> w \in s.lines[x].fresh
      BY <2>4, <2>6, <2>7, <3>1
    <3> QED BY <2>3, <2>7, <3>2 DEF Evicted, IsFresh, LineAt
  <2>8. CASE ~(x \in dirty /\ IsCached(s, w))
    <3>1. w \in t.mem <=> w \in s.mem
      BY <2>4, <2>5, <2>6, <2>8
    <3>2. CASE x \in sets /\ IsCached(s, w)
      BY <2>3, <2>8, <3>1, <3>2 DEF Evicted, LineAt
    <3>3. CASE x \in sets /\ ~IsCached(s, w)
      BY <2>3, <3>1, <3>3 DEF Alike
    <3>4. CASE x \notin sets
      BY <2>2, <3>1, <3>4 DEF Alike, IsCached, IsFresh
    <3> QED BY <3>2, <3>3, <3>4
  <2> QED BY <2>3, <2>7, <2>8
<1> QED BY <1>3, <1>7, <1>8

LEMMA FilledIs ==
  ASSUME NEW s, Wf(s), NEW l \in Nat, NEW t, t = Mem!Filled(s, l)
  PROVE  /\ Wf(t)
         /\ t.lines[l % DSets].line = l /\ l % DSets \in 0 .. DSets - 1
         /\ \A w \in Mem!AllWords : \/ Alike(s, t, w)
                                    \/ Mem!Line(w) = l /\ Brought(s, t, w)
                                    \/ Mem!Line(w) # l /\ Evicted(s, t, w)
<1> DEFINE x == l % DSets
           f == Mem!Flushed(s, {x})
<1>1. x \in 0 .. DSets - 1
  BY Sizes
<1>2. CASE s.lines[x].line = l
  <2>1. t = s
    BY <1>2 DEF Mem!Filled, Mem!Holds
  <2> QED BY <1>1, <1>2, <2>1 DEF Alike
<1>3. CASE s.lines[x].line # l
  <2>1. t = [f EXCEPT !.lines[x] = [line |-> l, dirty |-> FALSE,
        fresh |-> f.mem \intersect Mem!LineOf(l)]]
    BY <1>3 DEF Mem!Filled, Mem!Holds
  <2>2. /\ Wf(f)
        /\ \A y \in 0 .. DSets - 1 : f.lines[y] = IF y \in {x} THEN Mem!Empty ELSE s.lines[y]
        /\ \A w \in Mem!AllWords : /\ Alike(s, f, w) \/ Evicted(s, f, w)
                                   /\ Mem!Line(w) % DSets \in {x} => ~IsCached(f, w)
    BY <1>1, FlushedIs
  <2> HIDE DEF f, x
  <2>3. f.mem \subseteq Mem!AllWords /\ f.lines \in [0 .. DSets - 1 -> Mem!Lines]
        /\ f = [mem |-> f.mem, lines |-> f.lines]
    BY <2>2 DEF Wf, Stores
  <2> DEFINE new == [line |-> l, dirty |-> FALSE, fresh |-> f.mem \intersect Mem!LineOf(l)]
  <2>4. /\ t = [mem |-> f.mem, lines |-> [f.lines EXCEPT ![x] = new]]
    BY <2>1, <2>3
  <2>5. new \in Mem!Lines /\ new # Mem!Empty
    <3>1. new.fresh \subseteq Int
      BY <2>3, AllWordsNat
    <3> QED BY <3>1, EmptyIs DEF Mem!Lines
  <2>11. x \in 0 .. DSets - 1 /\ t.lines = [f.lines EXCEPT ![x] = new] /\ t.mem = f.mem
    BY <1>1, <2>4
  <2>6. t.mem = f.mem /\ t.lines[x] = new /\ \A y \in 0 .. DSets - 1 : y # x
        => t.lines[y] = f.lines[y]
    <3> HIDE DEF new
    <3> QED BY <2>3, <2>11
  <2>7. t \in Stores
    BY <1>1, <2>3, <2>4, <2>5 DEF Stores
  <2>8. Wf(t)
    <3>1. ASSUME NEW y \in 0 .. DSets - 1, t.lines[y] # Mem!Empty
          PROVE  /\ t.lines[y].line \in Nat /\ t.lines[y].line % DSets = y
                 /\ t.lines[y].fresh \subseteq Mem!LineOf(t.lines[y].line) \intersect Mem!AllWords
      <4>1. CASE y = x
        BY <2>3, <2>6, <4>1 DEF x
      <4>2. CASE y # x
        BY <2>2, <2>6, <3>1, <4>2 DEF Wf
      <4> QED BY <4>1, <4>2
    <3> QED BY <2>7, <3>1 DEF Wf
  <2>9. ASSUME NEW w \in Mem!AllWords
        PROVE  \/ Alike(s, t, w)
               \/ Mem!Line(w) = l /\ Brought(s, t, w)
               \/ Mem!Line(w) # l /\ Evicted(s, t, w)
    <3>1. Mem!Line(w) % DSets \in 0 .. DSets - 1 /\ w \in Nat
      BY LineAtIs
    <3>2. CASE Mem!Line(w) = l
      <4>1. LineAt(s, w) = s.lines[x] /\ LineAt(t, w) = new
        BY <2>6, <3>2 DEF LineAt, x
      <4>2. ~IsCached(s, w) /\ IsCached(t, w) /\ ~LineAt(t, w).dirty
        BY <1>3, <3>2, <4>1 DEF IsCached
      <4>3. Alike(s, f, w)
        BY <2>2, <4>2 DEF Evicted
      <4>4. IsFresh(t, w) <=> w \in f.mem
        BY <3>1, <3>2, <4>1, LineIs DEF IsFresh
      <4> QED BY <2>6, <3>2, <4>2, <4>3, <4>4 DEF Brought, Alike
    <3>3. CASE Mem!Line(w) # l
      <4>1. CASE Mem!Line(w) % DSets = x
        <5>1. ~IsCached(t, w) /\ ~IsCached(f, w)
          BY <2>2, <2>6, <3>3, <4>1 DEF IsCached, LineAt
        <5> QED BY <2>2, <2>6, <3>3, <5>1 DEF Alike, Evicted
      <4>2. CASE Mem!Line(w) % DSets # x
        <5>1. LineAt(t, w) = LineAt(f, w)
          BY <2>6, <3>1, <4>2 DEF LineAt
        <5> QED BY <2>2, <2>6, <3>3, <5>1 DEF Alike, Evicted, IsCached, IsFresh
      <4> QED BY <4>1, <4>2
    <3> QED BY <3>2, <3>3
  <2>10. t.lines[x].line = l
    BY <2>6
  <2> QED BY <1>1, <2>8, <2>9, <2>10 DEF x
<1> QED BY <1>2, <1>3

Written(s, t, w) == /\ IsCached(t, w) /\ LineAt(t, w).dirty
                    /\ (IF IsCached(s, w) THEN IsFresh(s, w) ELSE w \in s.mem) => IsFresh(t, w)

LEMMA StoredIs ==
  ASSUME NEW s, Wf(s), NEW w \in Mem!AllWords, NEW t, t = Mem!Stored(s, w)
  PROVE  /\ Wf(t)
         /\ \A v \in Mem!AllWords : \/ Mem!Line(v) # Mem!Line(w)
                                       /\ (Alike(s, t, v) \/ Evicted(s, t, v))
                                    \/ Mem!Line(v) = Mem!Line(w) /\ Written(s, t, v)
<1> DEFINE f == Mem!Filled(s, Mem!Line(w))
           x == Mem!Line(w) % DSets
<1>1. w \in Nat /\ Mem!Line(w) \in Nat /\ x \in 0 .. DSets - 1
  BY LineAtIs
<1>2. /\ Wf(f) /\ f.lines[x].line = Mem!Line(w)
      /\ \A v \in Mem!AllWords : \/ Alike(s, f, v)
                                 \/ Mem!Line(v) = Mem!Line(w) /\ Brought(s, f, v)
                                 \/ Mem!Line(v) # Mem!Line(w) /\ Evicted(s, f, v)
  BY <1>1, FilledIs
<1> DEFINE new == [line |-> Mem!Line(w), dirty |-> TRUE, fresh |-> f.lines[x].fresh \union {w}]
<1>3. t = [mem |-> f.mem \ {w}, lines |-> [f.lines EXCEPT ![x] = new]]
  BY DEF Mem!Stored
<1> HIDE DEF f, x
<1>4. f.mem \subseteq Mem!AllWords /\ f.lines \in [0 .. DSets - 1 -> Mem!Lines]
      /\ f.lines[x] \in Mem!Lines
  BY <1>1, <1>2 DEF Wf, Stores
<1>6. t.mem = f.mem \ {w} /\ t = [mem |-> t.mem, lines |-> t.lines]
  BY <1>3
<1>7. t.lines = [f.lines EXCEPT ![x] = new]
  BY <1>3
<1>8. new \in Mem!Lines /\ new # Mem!Empty
  BY <1>1, <1>4, EmptyIs DEF Mem!Lines
<1>9. t.lines[x] = new /\ \A y \in 0 .. DSets - 1 : y # x => t.lines[y] = f.lines[y]
  <2> HIDE DEF new
  <2> QED BY <1>1, <1>4, <1>7
<1>10. t \in Stores
  <2> HIDE DEF new
  <2>1. t.lines \in [0 .. DSets - 1 -> Mem!Lines]
    BY <1>1, <1>4, <1>7, <1>8
  <2> QED BY <1>4, <1>6, <2>1 DEF Stores
<1>11. Wf(t)
  <2>1. ASSUME NEW y \in 0 .. DSets - 1, t.lines[y] # Mem!Empty
        PROVE  /\ t.lines[y].line \in Nat /\ t.lines[y].line % DSets = y
               /\ t.lines[y].fresh \subseteq Mem!LineOf(t.lines[y].line) \intersect Mem!AllWords
    <3>1. CASE y = x
      <4>1. f.lines[x] # Mem!Empty
        BY <1>1, <1>2, EmptyIs
      <4>2. f.lines[x].fresh \subseteq Mem!LineOf(Mem!Line(w)) \intersect Mem!AllWords
        BY <1>1, <1>2, <4>1 DEF Wf
      <4>3. w \in Mem!LineOf(Mem!Line(w))
        BY <1>1, LineIs
      <4> QED BY <1>1, <1>9, <3>1, <4>2, <4>3 DEF x
    <3>2. CASE y # x
      BY <1>2, <1>9, <2>1, <3>2 DEF Wf
    <3> QED BY <3>1, <3>2
  <2> QED BY <1>10, <2>1 DEF Wf
<1>12. ASSUME NEW v \in Mem!AllWords
       PROVE  \/ Mem!Line(v) # Mem!Line(w) /\ (Alike(s, t, v) \/ Evicted(s, t, v))
              \/ Mem!Line(v) = Mem!Line(w) /\ Written(s, t, v)
  <2>1. Mem!Line(v) % DSets \in 0 .. DSets - 1
    BY LineAtIs
  <2>2. CASE Mem!Line(v) = Mem!Line(w)
    <3>1. LineAt(t, v) = new /\ LineAt(f, v) = f.lines[x] /\ IsCached(f, v)
      BY <1>2, <1>9, <2>2 DEF LineAt, IsCached, x
    <3>2. IsCached(t, v) /\ LineAt(t, v).dirty /\ (IsFresh(f, v) => IsFresh(t, v))
      BY <2>2, <3>1 DEF IsCached, IsFresh
    <3>3. (IF IsCached(s, v) THEN IsFresh(s, v) ELSE v \in s.mem) => IsFresh(f, v)
      BY <1>2, <2>2, <3>1 DEF Alike, Brought
    <3> QED BY <2>2, <3>2, <3>3 DEF Written
  <2>3. CASE Mem!Line(v) # Mem!Line(w)
    <3>1. v # w /\ (v \in t.mem <=> v \in f.mem)
      BY <1>6, <2>3
    <3>2. Alike(s, f, v) \/ Evicted(s, f, v)
      BY <1>2, <2>3
    <3>3. CASE Mem!Line(v) % DSets = x
      <4>1. ~IsCached(f, v) /\ ~IsCached(t, v)
        BY <1>2, <1>9, <2>3, <3>3 DEF IsCached, LineAt
      <4> QED BY <2>3, <3>1, <3>2, <4>1 DEF Alike, Evicted
    <3>4. CASE Mem!Line(v) % DSets # x
      <4>1. LineAt(t, v) = LineAt(f, v)
        BY <1>9, <2>1, <3>4 DEF LineAt
      <4> QED BY <2>3, <3>1, <3>2, <4>1 DEF Alike, Evicted, IsCached, IsFresh
    <3> QED BY <3>3, <3>4
  <2> QED BY <2>2, <2>3
<1> QED BY <1>11, <1>12

LEMMA BypassedIs ==
  ASSUME NEW s, Wf(s), NEW ws \in SUBSET Mem!AllWords, NEW t, t = Mem!Bypassed(s, ws)
  PROVE  /\ Wf(t)
         /\ \A v \in Mem!AllWords : /\ v \notin ws => Alike(s, t, v)
                                    /\ IsCached(t, v) <=> IsCached(s, v)
                                    /\ LineAt(t, v).dirty = LineAt(s, v).dirty
                                    /\ v \in ws => v \in t.mem
<1>1. s.mem \subseteq Mem!AllWords /\ s.lines \in [0 .. DSets - 1 -> Mem!Lines]
  BY DEF Wf, Stores
<1>2. t = [mem |-> s.mem \union ws,
           lines |-> [x \in 0 .. DSets - 1 |-> [s.lines[x] EXCEPT !.fresh = @ \ ws]]]
  BY <1>1 DEF Mem!Bypassed
<1>3. \A x \in 0 .. DSets - 1 : t.lines[x] = [s.lines[x] EXCEPT !.fresh = @ \ ws]
  BY <1>2
<1>4. ASSUME NEW x \in 0 .. DSets - 1
      PROVE  /\ t.lines[x] \in Mem!Lines /\ t.lines[x].line = s.lines[x].line
             /\ t.lines[x].dirty = s.lines[x].dirty /\ t.lines[x].fresh = s.lines[x].fresh \ ws
  <2>1. s.lines[x] \in Mem!Lines
    BY <1>1
  <2> QED BY <1>3, <2>1 DEF Mem!Lines
<1>5. t \in Stores
  <2>1. t.lines \in [0 .. DSets - 1 -> Mem!Lines]
    BY <1>2, <1>4
  <2>2. t.mem = s.mem \union ws /\ t = [mem |-> t.mem, lines |-> t.lines]
    BY <1>2
  <2> QED BY <1>1, <2>1, <2>2 DEF Stores
<1>6. Wf(t)
  <2>1. ASSUME NEW x \in 0 .. DSets - 1, t.lines[x] # Mem!Empty
        PROVE  s.lines[x] # Mem!Empty
    <3>1. SUFFICES ASSUME s.lines[x] = Mem!Empty PROVE FALSE
      OBVIOUS
    <3>2. t.lines[x].line = -1 /\ t.lines[x].dirty = FALSE /\ t.lines[x].fresh = {}
          /\ t.lines[x] \in Mem!Lines
      BY <1>4, <3>1, EmptyIs
    <3> QED BY <2>1, <3>2 DEF Mem!Lines, Mem!Empty
  <2> QED BY <1>4, <1>5, <2>1 DEF Wf
<1>7. ASSUME NEW v \in Mem!AllWords
      PROVE  /\ v \notin ws => Alike(s, t, v)
             /\ IsCached(t, v) <=> IsCached(s, v)
             /\ LineAt(t, v).dirty = LineAt(s, v).dirty
             /\ v \in ws => v \in t.mem
  <2>1. /\ LineAt(t, v).line = LineAt(s, v).line /\ LineAt(t, v).dirty = LineAt(s, v).dirty
        /\ LineAt(t, v).fresh = LineAt(s, v).fresh \ ws
    BY <1>4, LineAtIs DEF LineAt
  <2>2. v \in t.mem <=> v \in s.mem \/ v \in ws
    BY <1>2
  <2> QED BY <2>1, <2>2 DEF Alike, IsCached, IsFresh
<1> QED BY <1>6, <1>7

LEMMA FlushRange ==
  ASSUME NEW s, Wf(s), NEW start \in Nat, NEW len \in Nat, NEW t,
         t = Mem!alt_dcache_flush(s, start, len)
  PROVE  /\ Wf(t)
         /\ \A w \in Mem!AllWords : /\ Alike(s, t, w) \/ Evicted(s, t, w)
                                    /\ w \in start .. start + len - 1 => ~IsCached(t, w)
<1> DEFINE found == {Mem!Line(a) % DSets : a \in {v \in Mem!Visited(start, len) :
       Mem!Holds(s.lines, Mem!Line(v), DSets)}}
           sets == IF flushda THEN found ELSE Mem!VisitedSets(start, len, DSets)
<1>1. t = Mem!Flushed(s, sets)
  BY DEF Mem!alt_dcache_flush
<1>2. found \subseteq 0 .. DSets - 1
  BY VisitedNat, LineNat
<1>3. sets \in SUBSET (0 .. DSets - 1)
  BY <1>2, VisitedSetsAre, Sizes
<1>4. ASSUME NEW w \in Mem!AllWords, w \in start .. start + len - 1, IsCached(s, w)
      PROVE  Mem!Line(w) % DSets \in sets
  <2>1. CASE flushda
    <3>1. PICK v \in Mem!Visited(start, len) : Mem!Line(v) = Mem!Line(w)
      BY <1>4, Covers
    <3>2. Mem!Holds(s.lines, Mem!Line(v), DSets)
      BY <1>4, <3>1 DEF Mem!Holds, IsCached, LineAt
    <3> QED BY <2>1, <3>1, <3>2
  <2>2. CASE ~flushda
    BY <1>4, <2>2, VisitedSetsAre, Sizes
  <2> QED BY <2>1, <2>2
<1> HIDE DEF sets
<1>5. /\ Wf(t)
      /\ \A w \in Mem!AllWords : /\ Alike(s, t, w) \/ Evicted(s, t, w)
                                 /\ Mem!Line(w) % DSets \in sets => ~IsCached(t, w)
  BY <1>1, <1>3, FlushedIs
<1>6. ASSUME NEW w \in Mem!AllWords, w \in start .. start + len - 1
      PROVE  ~IsCached(t, w)
  <2>1. CASE IsCached(s, w)
    BY <1>4, <1>5, <1>6, <2>1
  <2>2. CASE ~IsCached(s, w)
    BY <1>5, <2>2 DEF Alike, Evicted
  <2> QED BY <2>1, <2>2
<1> QED BY <1>5, <1>6

LEMMA FlushAll ==
  ASSUME NEW s, Wf(s), NEW t, t = Mem!alt_dcache_flush_all(s)
  PROVE  /\ Wf(t)
         /\ \A w \in Mem!AllWords : (Alike(s, t, w) \/ Evicted(s, t, w)) /\ ~IsCached(t, w)
<1> DEFINE sets == {Mem!Line(LineWords * k) % DSets : k \in 0 .. DSets - 1}
<1>1. t = Mem!Flushed(s, sets)
  BY DEF Mem!alt_dcache_flush_all
<1>2. ASSUME NEW k \in 0 .. DSets - 1 PROVE Mem!Line(LineWords * k) = k /\ k % DSets = k
  <2>1. k \in Nat /\ LineWords \in Nat \ {0}
    BY Sizes
  <2>2. Mem!Line(0 + LineWords * k) = Mem!Line(0) + k /\ LineWords * k \in Nat
    BY <2>1, LineAdd
  <2>3. Mem!Line(0) = 0
    BY <2>1 DEF Mem!Line
  <2>4. k % DSets = k
    BY Sizes
  <2> QED BY <2>1, <2>2, <2>3, <2>4
<1>3. sets = 0 .. DSets - 1
  BY <1>2
<1>4. /\ Wf(t)
      /\ \A w \in Mem!AllWords : /\ Alike(s, t, w) \/ Evicted(s, t, w)
                                 /\ Mem!Line(w) % DSets \in 0 .. DSets - 1 => ~IsCached(t, w)
  <2> HIDE DEF sets
  <2> QED BY <1>1, <1>3, FlushedIs
<1> QED BY <1>4, LineAtIs

LEMMA DiscardIs ==
  ASSUME Initda, NEW s, Wf(s), NEW start \in Nat, NEW len \in Nat,
         NEW t, t = Mem!alt_dcache_flush_no_writeback(s, start, len)
  PROVE  /\ Wf(t)
         /\ \A w \in Mem!AllWords : /\ w \in start .. start + len - 1 => ~IsCached(t, w)
                                    /\ Mem!Line(w) \notin {Mem!Line(v) :
                                       v \in Mem!Visited(start, len)} => Alike(s, t, w)
                                    /\ IsCached(t, w) => IsCached(s, w)
<1> DEFINE sets == {Mem!Line(a) % DSets : a \in {v \in Mem!Visited(start, len) :
                                                    Initda
                                                      /\ Mem!Holds(s.lines, Mem!Line(v), DSets)}}
<1>1. s.mem \subseteq Mem!AllWords /\ s.lines \in [0 .. DSets - 1 -> Mem!Lines]
      /\ s = [mem |-> s.mem, lines |-> s.lines]
  BY DEF Wf, Stores
<1>2. t = [s EXCEPT !.lines = Mem!Dropped(@, sets)]
  BY DEF Mem!alt_dcache_flush_no_writeback
<1> HIDE DEF sets
<1>3. t = [mem |-> s.mem, lines |-> [x \in 0 .. DSets - 1 |-> IF x \in sets THEN Mem!Empty
      ELSE s.lines[x]]]
  BY <1>1, <1>2 DEF Mem!Dropped
<1>4. t.lines \in [0 .. DSets - 1 -> Mem!Lines] /\ t.mem = s.mem
      /\ \A x \in 0 .. DSets - 1 : t.lines[x] = IF x \in sets THEN Mem!Empty ELSE s.lines[x]
  <2>1. t.mem = s.mem /\ t.lines = [x \in 0 .. DSets - 1 |-> IF x \in sets THEN Mem!Empty
        ELSE s.lines[x]]
    BY <1>3
  <2> QED BY <1>1, <2>1, EmptyIs
<1>5. Wf(t)
  <2>1. t \in Stores
    BY <1>1, <1>3, <1>4 DEF Stores
  <2> QED BY <1>4, <2>1 DEF Wf
<1>6. ASSUME NEW w \in Mem!AllWords
      PROVE  /\ w \in start .. start + len - 1 => ~IsCached(t, w)
             /\ Mem!Line(w) \notin {Mem!Line(v) : v \in Mem!Visited(start, len)} => Alike(s, t, w)
             /\ IsCached(t, w) => IsCached(s, w)
  <2> DEFINE x == Mem!Line(w) % DSets
  <2>1. x \in 0 .. DSets - 1 /\ Mem!Line(w) \in Nat /\ w \in Nat
    BY LineAtIs
  <2>2. LineAt(t, w) = IF x \in sets THEN Mem!Empty ELSE LineAt(s, w)
    BY <1>4, <2>1 DEF LineAt
  <2>3. x \in sets => ~IsCached(t, w)
    BY <2>1, <2>2, EmptyIs DEF IsCached
  <2>4. x \notin sets => Alike(s, t, w)
    BY <1>4, <2>2 DEF Alike, IsCached, IsFresh
  <2>5. ASSUME w \in start .. start + len - 1 PROVE ~IsCached(t, w)
    <3>1. PICK v \in Mem!Visited(start, len) : Mem!Line(v) = Mem!Line(w)
      BY <2>5, Covers
    <3>2. CASE IsCached(s, w)
      <4>1. Mem!Holds(s.lines, Mem!Line(v), DSets)
        BY <3>1, <3>2 DEF Mem!Holds, IsCached, LineAt
      <4>2. x \in sets
        BY <3>1, <4>1 DEF sets
      <4> QED BY <2>3, <4>2
    <3>3. CASE ~IsCached(s, w)
      BY <2>3, <2>4, <3>3 DEF Alike
    <3> QED BY <3>2, <3>3
  <2>6. ASSUME Mem!Line(w) \notin {Mem!Line(v) : v \in Mem!Visited(start, len)}
        PROVE Alike(s, t, w)
    <3>1. CASE x \in sets
      <4>1. PICK v \in Mem!Visited(start, len) : Mem!Line(v) % DSets = x
                 /\ Mem!Holds(s.lines, Mem!Line(v), DSets)
        BY <3>1 DEF sets
      <4>2. LineAt(s, w).line = Mem!Line(v) /\ Mem!Line(v) # Mem!Line(w)
        BY <2>6, <4>1 DEF Mem!Holds, LineAt
      <4> QED BY <1>4, <2>3, <3>1, <4>2 DEF Alike, IsCached
    <3> QED BY <2>4, <3>1
  <2> QED BY <2>3, <2>4, <2>5, <2>6 DEF Alike
<1> QED BY <1>5, <1>6

-----------------------------------------------------------------------------
(* The inductive invariant.                                                *)

Coh(s, w) == IF IsCached(s, w) THEN IsFresh(s, w) /\ (LineAt(s, w).dirty \/ w \in s.mem)
             ELSE w \in s.mem
Clean(s, w) == w \in s.mem /\ (IsCached(s, w) => ~LineAt(s, w).dirty)
Synced(s, w) == IsCached(s, w) => IsFresh(s, w)
InMemory(s, w) == ~IsCached(s, w) /\ w \in s.mem

HeldAs(k, s, w) == /\ k \in {"free", "cached"} => Coh(s, w)
                   /\ k \in {"uncached", "posted", "posted cached"} => InMemory(s, w)
                   /\ k \in {"filling", "filling cached"} => ~IsCached(s, w)

Uses == {"free", "cached", "uncached", "posted", "posted cached", "filling", "filling cached"}

DataOK(s, u, run, un) ==
  /\ Wf(s)
  /\ \A w \in Mem!Words(ProgramData) : Coh(s, w)
  /\ \A b \in Buffer : \A w \in Mem!Words(b) : HeldAs(u[b], s, w)
  /\ \A w \in Mem!Words(Flash) : Clean(s, w) /\ (w \notin un => Synced(s, w))
  /\ \A w \in Mem!Words(Code) : IF run THEN InMemory(s, w) ELSE Coh(s, w)

MemoryTypes ==
  /\ use \in [Buffer -> Uses]
  /\ unsynced \subseteq Mem!Words(Flash)
  /\ icache \in [0 .. ISets - 1 -> Mem!Lines]
  /\ stage \in DOMAIN Mem!After \union {"flush all", "flush overlay", "run"}
  /\ copied \in Nat
  /\ IF stage \in DOMAIN Mem!After THEN copied <= Section[stage].len ELSE copied = 0

FetchOK == Mem!Running => \A w \in Mem!Words(Code) :
             Mem!Holds(icache, Mem!Line(w), ISets) => w \in icache[Mem!Line(w) % ISets].fresh

MemoryIInv == MemoryTypes /\ DataOK(Mem!Here, use, Mem!Running, unsynced) /\ FetchOK

LEMMA RegionWords ==
  /\ Mem!Words(ProgramData) \subseteq Mem!AllWords /\ Mem!Words(Flash) \subseteq Mem!AllWords
     /\ Mem!Words(Code) \subseteq Mem!AllWords
  /\ \A b \in Buffer : Mem!Words(b) \subseteq Mem!AllWords
BY DEF Mem!AllWords

LEMMA Apart ==
  /\ \A v \in Mem!Words(ProgramData) : Mem!Line(v) \notin LinesOf(Flash)
     /\ Mem!Line(v) \notin LinesOf(Code)
  /\ \A v \in Mem!Words(Flash) : Mem!Line(v) \notin LinesOf(ProgramData)
     /\ Mem!Line(v) \notin LinesOf(Code)
  /\ \A v \in Mem!Words(Code) : Mem!Line(v) \notin LinesOf(Flash)
     /\ Mem!Line(v) \notin LinesOf(ProgramData)
  /\ \A b \in Buffer : \A r \in {ProgramData, Flash, Code} :
       /\ \A v \in Mem!Words(r) : Mem!Line(v) \notin LinesOf(b) /\ Mem!Line(v) \notin Touched(b)
       /\ \A v \in Mem!Words(b) : Mem!Line(v) \notin LinesOf(r)
  /\ \A b \in Buffer : \A c \in Buffer \ {b} :
       \A v \in Mem!Words(c) : Mem!Line(v) \notin LinesOf(b) /\ Mem!Line(v) \notin Touched(b)
<1>1. ASSUME NEW b \in Buffer PROVE LinesOf(b) \subseteq Touched(b)
  <2>1. b.start \in Nat /\ b.len \in Nat
    BY Sizes DEF Region
  <2>2. ASSUME NEW w \in Mem!Words(b) PROVE Mem!Line(w) \in Touched(b)
    BY <2>1, <2>2, Covers DEF Mem!Words, Touched
  <2> QED BY <2>2 DEF LinesOf
<1>2. ASSUME NEW r, NEW v \in Mem!Words(r) PROVE Mem!Line(v) \in LinesOf(r)
  BY DEF LinesOf
<1>3. /\ LinesOf(ProgramData) \intersect LinesOf(Flash) = {}
      /\ LinesOf(ProgramData) \intersect LinesOf(Code) = {}
      /\ LinesOf(Flash) \intersect LinesOf(Code) = {}
      /\ \A b \in Buffer : \A r \in (Buffer \ {b}) \union {ProgramData, Flash, Code} :
           Touched(b) \intersect LinesOf(r) = {}
  BY MemoryAssumption DEF RegionsApart
<1>4. ASSUME NEW b \in Buffer, NEW r \in (Buffer \ {b}) \union {ProgramData, Flash, Code}
      PROVE  /\ \A v \in Mem!Words(r) : Mem!Line(v) \notin LinesOf(b)
                /\ Mem!Line(v) \notin Touched(b)
             /\ \A v \in Mem!Words(b) : Mem!Line(v) \notin LinesOf(r)
  <2>1. Touched(b) \intersect LinesOf(r) = {} /\ LinesOf(b) \subseteq Touched(b)
    BY <1>1, <1>3
  <2>2. \A v \in Mem!Words(r) : Mem!Line(v) \in LinesOf(r)
    BY <1>2
  <2>3. \A v \in Mem!Words(b) : Mem!Line(v) \in LinesOf(b)
    BY <1>2
  <2> QED BY <2>1, <2>2, <2>3
<1>5. /\ \A v \in Mem!Words(ProgramData) : Mem!Line(v) \in LinesOf(ProgramData)
      /\ \A v \in Mem!Words(Flash) : Mem!Line(v) \in LinesOf(Flash)
      /\ \A v \in Mem!Words(Code) : Mem!Line(v) \in LinesOf(Code)
  BY <1>2
<1>6. /\ \A v \in Mem!Words(ProgramData) : Mem!Line(v) \notin LinesOf(Flash)
         /\ Mem!Line(v) \notin LinesOf(Code)
      /\ \A v \in Mem!Words(Flash) : Mem!Line(v) \notin LinesOf(ProgramData)
         /\ Mem!Line(v) \notin LinesOf(Code)
      /\ \A v \in Mem!Words(Code) : Mem!Line(v) \notin LinesOf(Flash)
         /\ Mem!Line(v) \notin LinesOf(ProgramData)
  BY <1>3, <1>5
<1> QED BY <1>4, <1>6

LEMMA CohKept ==
  ASSUME NEW s, NEW t, NEW w, Coh(s, w), Alike(s, t, w) \/ Evicted(s, t, w) \/ Brought(s, t, w)
  PROVE  Coh(t, w)
BY DEF Coh, Alike, Evicted, Brought

LEMMA CohWritten ==
  ASSUME NEW s, NEW t, NEW w, Coh(s, w), Written(s, t, w)
  PROVE  Coh(t, w)
BY DEF Coh, Written

LEMMA AwayKept ==
  ASSUME NEW s, NEW t, NEW w, ~IsCached(s, w), Alike(s, t, w) \/ Evicted(s, t, w)
  PROVE  ~IsCached(t, w) /\ (InMemory(s, w) => InMemory(t, w))
BY DEF InMemory, Alike, Evicted

LEMMA CleanKept ==
  ASSUME NEW s, NEW t, NEW w, Clean(s, w), Alike(s, t, w) \/ Evicted(s, t, w) \/ Brought(s, t, w)
  PROVE  Clean(t, w) /\ (Synced(s, w) => Synced(t, w))
BY DEF Clean, Synced, Alike, Evicted, Brought

LEMMA HeldKept ==
  ASSUME NEW s, NEW t, NEW w, NEW k \in Uses, HeldAs(k, s, w), Alike(s, t, w) \/ Evicted(s, t, w)
  PROVE  HeldAs(k, t, w)
<1>1. Coh(s, w) => Coh(t, w)
  BY CohKept
<1>2. ~IsCached(s, w) => ~IsCached(t, w) /\ (InMemory(s, w) => InMemory(t, w))
  BY AwayKept
<1> QED BY <1>1, <1>2 DEF HeldAs, InMemory

(* A buffer changes hands; whatever happened to the others was an          *)
(* eviction at most.                                                       *)
LEMMA HandData ==
  ASSUME NEW s, NEW t, NEW u \in [Buffer -> Uses], NEW run \in BOOLEAN, NEW un,
         DataOK(s, u, run, un), Wf(t), NEW b \in Buffer, NEW k \in Uses,
         \A w \in Mem!AllWords : Mem!Line(w) \notin Touched(b) => Alike(s, t, w)
           \/ Evicted(s, t, w),
         \A w \in Mem!Words(b) : HeldAs(k, t, w)
  PROVE  DataOK(t, [u EXCEPT ![b] = k], run, un)
<1>1. \A w \in Mem!Words(ProgramData) : Coh(t, w)
  BY CohKept, RegionWords, Apart DEF DataOK
<1>2. ASSUME NEW c \in Buffer, NEW w \in Mem!Words(c) PROVE HeldAs([u EXCEPT ![b] = k][c], t, w)
  <2>1. CASE c = b
    BY <1>2, <2>1
  <2>2. CASE c # b
    BY <1>2, <2>2, HeldKept, RegionWords, Apart DEF DataOK
  <2> QED BY <2>1, <2>2
<1>3. \A w \in Mem!Words(Flash) : Clean(t, w) /\ (w \notin un => Synced(t, w))
  BY CleanKept, RegionWords, Apart DEF DataOK
<1>4. ASSUME NEW w \in Mem!Words(Code) PROVE IF run THEN InMemory(t, w) ELSE Coh(t, w)
  <2>1. Alike(s, t, w) \/ Evicted(s, t, w)
    BY RegionWords, Apart
  <2>2. IF run THEN InMemory(s, w) ELSE Coh(s, w)
    BY DEF DataOK
  <2> QED BY <2>1, <2>2, CohKept, AwayKept DEF InMemory
<1> QED BY <1>1, <1>2, <1>3, <1>4 DEF DataOK

LEMMA EvictKeeps ==
  ASSUME NEW s, NEW t, NEW u \in [Buffer -> Uses], NEW run \in BOOLEAN, NEW un,
         DataOK(s, u, run, un), Wf(t),
         \A w \in Mem!AllWords : Alike(s, t, w) \/ Evicted(s, t, w)
  PROVE  DataOK(t, u, run, un)
<1>1. \A w \in Mem!Words(ProgramData) : Coh(t, w)
  BY CohKept, RegionWords DEF DataOK
<1>2. \A c \in Buffer : \A w \in Mem!Words(c) : HeldAs(u[c], t, w)
  BY HeldKept, RegionWords DEF DataOK
<1>3. \A w \in Mem!Words(Flash) : Clean(t, w) /\ (w \notin un => Synced(t, w))
  BY CleanKept, RegionWords DEF DataOK
<1>4. ASSUME NEW w \in Mem!Words(Code) PROVE IF run THEN InMemory(t, w) ELSE Coh(t, w)
  <2>1. Alike(s, t, w) \/ Evicted(s, t, w)
    BY RegionWords
  <2>2. IF run THEN InMemory(s, w) ELSE Coh(s, w)
    BY DEF DataOK
  <2> QED BY <2>1, <2>2, CohKept, AwayKept DEF InMemory
<1> QED BY <1>1, <1>2, <1>3, <1>4 DEF DataOK

(* A line that holds nothing the program has promised to leave alone.      *)
Spare(l, u, run) ==
  /\ l \in Nat
  /\ run => l \notin LinesOf(Code)
  /\ \A b \in Buffer : u[b] \notin {"free", "cached"} => l \notin LinesOf(b)

LEMMA LinesOfIs == ASSUME NEW r, NEW w \in Mem!Words(r) PROVE Mem!Line(w) \in LinesOf(r)
BY DEF LinesOf

LEMMA FillKeeps ==
  ASSUME NEW s, NEW u \in [Buffer -> Uses], NEW run \in BOOLEAN, NEW un, NEW l,
         DataOK(s, u, run, un), Spare(l, u, run), NEW t, t = Mem!Filled(s, l)
  PROVE  DataOK(t, u, run, un)
<1>1. /\ Wf(t)
      /\ \A w \in Mem!AllWords : \/ Alike(s, t, w)
                                 \/ Mem!Line(w) = l /\ Brought(s, t, w)
                                 \/ Mem!Line(w) # l /\ Evicted(s, t, w)
  BY FilledIs DEF DataOK, Spare
<1>2. \A w \in Mem!Words(ProgramData) : Coh(t, w)
  BY <1>1, CohKept, RegionWords DEF DataOK
<1>3. ASSUME NEW c \in Buffer, NEW w \in Mem!Words(c) PROVE HeldAs(u[c], t, w)
  <2>1. HeldAs(u[c], s, w) /\ u[c] \in Uses /\ w \in Mem!AllWords
    BY RegionWords DEF DataOK
  <2>2. CASE u[c] \in {"free", "cached"}
    BY <1>1, <2>1, <2>2, CohKept DEF HeldAs
  <2>3. CASE u[c] \notin {"free", "cached"}
    <3>1. Mem!Line(w) # l
      BY <2>3, LinesOfIs DEF Spare
    <3> QED BY <1>1, <2>1, <3>1, HeldKept
  <2> QED BY <2>2, <2>3
<1>4. \A w \in Mem!Words(Flash) : Clean(t, w) /\ (w \notin un => Synced(t, w))
  BY <1>1, CleanKept, RegionWords DEF DataOK
<1>5. ASSUME NEW w \in Mem!Words(Code) PROVE IF run THEN InMemory(t, w) ELSE Coh(t, w)
  <2>1. w \in Mem!AllWords /\ (run => Mem!Line(w) # l)
    BY RegionWords, LinesOfIs DEF Spare
  <2>2. IF run THEN InMemory(s, w) ELSE Coh(s, w)
    BY DEF DataOK
  <2> QED BY <1>1, <2>1, <2>2, CohKept, AwayKept DEF InMemory
<1> QED BY <1>1, <1>2, <1>3, <1>4, <1>5 DEF DataOK

LEMMA StoreKeeps ==
  ASSUME NEW s, NEW u \in [Buffer -> Uses], NEW run \in BOOLEAN, NEW un, NEW w \in Mem!AllWords,
         DataOK(s, u, run, un), Spare(Mem!Line(w), u, run), Mem!Line(w) \notin LinesOf(Flash),
         NEW t, t = Mem!Stored(s, w)
  PROVE  DataOK(t, u, run, un)
<1>1. /\ Wf(t)
      /\ \A v \in Mem!AllWords : \/ Mem!Line(v) # Mem!Line(w)
                                    /\ (Alike(s, t, v) \/ Evicted(s, t, v))
                                 \/ Mem!Line(v) = Mem!Line(w) /\ Written(s, t, v)
  BY StoredIs DEF DataOK
<1>2. \A v \in Mem!Words(ProgramData) : Coh(t, v)
  BY <1>1, CohKept, CohWritten, RegionWords DEF DataOK
<1>3. ASSUME NEW c \in Buffer, NEW v \in Mem!Words(c) PROVE HeldAs(u[c], t, v)
  <2>1. HeldAs(u[c], s, v) /\ u[c] \in Uses /\ v \in Mem!AllWords
    BY RegionWords DEF DataOK
  <2>2. CASE u[c] \in {"free", "cached"}
    BY <1>1, <2>1, <2>2, CohKept, CohWritten DEF HeldAs
  <2>3. CASE u[c] \notin {"free", "cached"}
    <3>1. Mem!Line(v) # Mem!Line(w)
      BY <2>3, LinesOfIs DEF Spare
    <3> QED BY <1>1, <2>1, <3>1, HeldKept
  <2> QED BY <2>2, <2>3
<1>4. ASSUME NEW v \in Mem!Words(Flash) PROVE Clean(t, v) /\ (v \notin un => Synced(t, v))
  <2>1. v \in Mem!AllWords /\ Mem!Line(v) # Mem!Line(w)
    BY RegionWords, LinesOfIs
  <2> QED BY <1>1, <2>1, CleanKept DEF DataOK
<1>5. ASSUME NEW v \in Mem!Words(Code) PROVE IF run THEN InMemory(t, v) ELSE Coh(t, v)
  <2>1. v \in Mem!AllWords /\ (run => Mem!Line(v) # Mem!Line(w))
    BY RegionWords, LinesOfIs DEF Spare
  <2>2. IF run THEN InMemory(s, v) ELSE Coh(s, v)
    BY DEF DataOK
  <2> QED BY <1>1, <2>1, <2>2, CohKept, CohWritten, AwayKept DEF InMemory
<1> QED BY <1>1, <1>2, <1>3, <1>4, <1>5 DEF DataOK

-----------------------------------------------------------------------------
(* Every step keeps the invariant.                                         *)

LEMMA BecomesIs == ASSUME NEW t, Wf(t), Mem!Becomes(t) PROVE Mem!Here' = t
BY DEF Mem!Becomes, Mem!Here, Wf, Stores

LEMMA UnchangedIs == ASSUME UNCHANGED Mem!data PROVE Mem!Here' = Mem!Here
BY DEF Mem!data, Mem!Here

LEMMA RunIs == Mem!Running \in BOOLEAN
BY DEF Mem!Running

LEMMA InitMemoryIInv == ASSUME Mem!Init PROVE MemoryIInv
<1>1. /\ mem = Mem!AllWords /\ dcache = [x \in 0 .. DSets - 1 |-> Mem!Empty]
      /\ icache = [x \in 0 .. ISets - 1 |-> Mem!Empty] /\ stage = "rwdata" /\ copied = 0
      /\ use = [b \in Buffer |-> "free"] /\ unsynced = {}
  BY DEF Mem!Init
<1>2. Wf(Mem!Here)
  <2>1. Mem!Here.mem = Mem!AllWords /\ Mem!Here.lines = [x \in 0 .. DSets - 1 |-> Mem!Empty]
    BY <1>1 DEF Mem!Here
  <2>2. Mem!Here \in Stores
    BY <1>1, EmptyIs DEF Mem!Here, Stores
  <2> QED BY <2>1, <2>2 DEF Wf
<1>3. ASSUME NEW w \in Mem!AllWords PROVE ~IsCached(Mem!Here, w) /\ w \in Mem!Here.mem
  <2>1. LineAt(Mem!Here, w) = Mem!Empty /\ Mem!Line(w) \in Nat
    BY <1>1, <1>2, LineAtIs DEF LineAt, Mem!Here
  <2> QED BY <1>1, <2>1, EmptyIs DEF IsCached, Mem!Here
<1>4. ~Mem!Running
  BY <1>1 DEF Mem!Running
<1>5. DataOK(Mem!Here, use, Mem!Running, unsynced)
  BY <1>1, <1>2, <1>3, <1>4, RegionWords DEF DataOK, Coh, Clean, Synced, HeldAs
<1>6. MemoryTypes
  <2>1. Section["rwdata"].len \in Nat /\ "rwdata" \in DOMAIN Mem!After
    BY MemoryAssumption DEF SectionsPlaced, Mem!After
  <2> QED BY <1>1, <2>1, EmptyIs DEF MemoryTypes, Uses
<1> QED BY <1>4, <1>5, <1>6 DEF MemoryIInv, FetchOK

LEMMA SectionIs ==
  ASSUME MemoryIInv, stage \in DOMAIN Mem!After, Section[stage].to # Section[stage].from,
         copied # Section[stage].len
  PROVE  /\ Section[stage].from + copied \in Mem!Words(ProgramData) \union Mem!Words(Flash)
            \union Mem!Words(Code)
         /\ Section[stage].to + copied \in Mem!Words(ProgramData) \union Mem!Words(Code)
         /\ copied + 1 \in Nat /\ copied + 1 <= Section[stage].len
<1>1. copied \in 0 .. Section[stage].len - 1 /\ Section[stage].len \in Nat
  <2>1. Section[stage].len \in Nat
    BY MemoryAssumption DEF SectionsPlaced
  <2>2. copied \in Nat /\ copied <= Section[stage].len
    BY DEF MemoryIInv, MemoryTypes
  <2> QED BY <2>1, <2>2
<1> QED BY <1>1, MemoryAssumption DEF SectionsPlaced

LEMMA LoadIInv == ASSUME MemoryIInv, Mem!alt_load_section PROVE MemoryIInv'
<1>1. /\ stage \in DOMAIN Mem!After /\ UNCHANGED <<flushda, use, Mem!config, unsynced>>
  BY DEF Mem!alt_load_section
<1>2. Mem!Running = FALSE /\ DataOK(Mem!Here, use, FALSE, unsynced) /\ use \in [Buffer -> Uses]
  <2>1. Mem!Running = FALSE
    BY <1>1 DEF Mem!Running, Mem!After
  <2>2. DataOK(Mem!Here, use, Mem!Running, unsynced) /\ use \in [Buffer -> Uses]
    BY DEF MemoryIInv, MemoryTypes
  <2> QED BY <2>1, <2>2
<1>3. CASE Section[stage].to = Section[stage].from \/ copied = Section[stage].len
  <2>1. stage' = Mem!After[stage] /\ copied' = 0 /\ UNCHANGED <<Mem!data, icache>>
    BY <1>3 DEF Mem!alt_load_section
  <2>2. stage' \in DOMAIN Mem!After \union {"flush all", "flush overlay"} /\ Mem!Running' = FALSE
    <3>1. stage \in {"rwdata", "exceptions", "rodata", "overlay"}
      BY <1>1 DEF Mem!After
    <3>2. /\ Mem!After["rwdata"] = "exceptions" /\ Mem!After["exceptions"] = "rodata"
          /\ Mem!After["rodata"] = "flush all" /\ Mem!After["overlay"] = "flush overlay"
      BY DEF Mem!After
    <3>3. stage' \in {"exceptions", "rodata", "flush all", "flush overlay"}
      BY <2>1, <3>1, <3>2
    <3> QED BY <3>3 DEF Mem!After, Mem!Running
  <2>3. stage' \in DOMAIN Mem!After => 0 <= Section[stage'].len
    BY MemoryAssumption DEF SectionsPlaced
  <2>4. MemoryTypes'
    BY <1>1, <2>1, <2>2, <2>3 DEF MemoryIInv, MemoryTypes
  <2>5. DataOK(Mem!Here', use', Mem!Running', unsynced')
    <3>1. Mem!Here' = Mem!Here
      BY <2>1, UnchangedIs
    <3> QED BY <1>1, <1>2, <2>2, <3>1
  <2> QED BY <2>2, <2>4, <2>5 DEF MemoryIInv, FetchOK
<1>4. CASE ~(Section[stage].to = Section[stage].from \/ copied = Section[stage].len)
  <2> DEFINE a == Section[stage].from + copied
             b == Section[stage].to + copied
             f == Mem!Filled(Mem!Here, Mem!Line(a))
             t == Mem!Stored(f, b)
  <2>1. /\ Mem!Becomes(t) /\ Mem!Outdated({b}) /\ copied' = copied + 1 /\ UNCHANGED stage
    BY <1>4 DEF Mem!alt_load_section
  <2>2. /\ a \in Mem!Words(ProgramData) \union Mem!Words(Flash) \union Mem!Words(Code)
        /\ b \in Mem!Words(ProgramData) \union Mem!Words(Code)
        /\ copied + 1 \in Nat /\ copied + 1 <= Section[stage].len
    BY <1>1, <1>4, SectionIs
  <2> HIDE DEF a, b
  <2>3. a \in Mem!AllWords /\ b \in Mem!AllWords /\ a \in Nat /\ b \in Nat
    BY <2>2, RegionWords, AllWordsNat
  <2>4. Spare(Mem!Line(a), use, FALSE) /\ Spare(Mem!Line(b), use, FALSE)
        /\ Mem!Line(b) \notin LinesOf(Flash)
    BY <2>2, <2>3, LineNat, Apart DEF Spare
  <2>5. DataOK(f, use, FALSE, unsynced)
    BY <1>2, <2>4, FillKeeps
  <2>6. DataOK(t, use, FALSE, unsynced)
    BY <1>2, <2>3, <2>4, <2>5, StoreKeeps
  <2> HIDE DEF f, t
  <2>7. Mem!Here' = t
    BY <2>1, <2>6, BecomesIs DEF DataOK
  <2>8. Mem!Running' = FALSE
    BY <1>2, <2>1 DEF Mem!Running
  <2>9. DataOK(Mem!Here', use', Mem!Running', unsynced')
    BY <1>1, <2>6, <2>7, <2>8
  <2>10. icache' \in [0 .. ISets - 1 -> Mem!Lines]
    <3>1. icache \in [0 .. ISets - 1 -> Mem!Lines]
      BY DEF MemoryIInv, MemoryTypes
    <3>2. \A x \in 0 .. ISets - 1 : [icache[x] EXCEPT !.fresh = @ \ {b}] \in Mem!Lines
      BY <3>1 DEF Mem!Lines
    <3> QED BY <2>1, <3>1, <3>2 DEF Mem!Outdated
  <2>11. MemoryTypes'
    BY <1>1, <2>1, <2>2, <2>10 DEF MemoryIInv, MemoryTypes
  <2> QED BY <2>8, <2>9, <2>11 DEF MemoryIInv, FetchOK
<1> QED BY <1>3, <1>4

LEMMA DroppedIs ==
  ASSUME MemoryIInv, NEW sets, NEW i, i = Mem!Dropped(icache, sets)
  PROVE  /\ i \in [0 .. ISets - 1 -> Mem!Lines]
         /\ \A x \in 0 .. ISets - 1 : x \in sets => i[x].line = -1
<1>1. icache \in [0 .. ISets - 1 -> Mem!Lines]
  BY DEF MemoryIInv, MemoryTypes
<1>2. i = [x \in 0 .. ISets - 1 |-> IF x \in sets THEN Mem!Empty ELSE icache[x]]
  BY <1>1 DEF Mem!Dropped
<1> QED BY <1>1, <1>2, EmptyIs

(* The code is in memory only once its lines have been flushed.            *)
LEMMA LoadedIInv ==
  ASSUME MemoryIInv, NEW flush \in {"flush all", "flush overlay"}, NEW d, NEW i,
         Mem!Loaded(flush, d, i),
         Wf(d),
         \A w \in Mem!AllWords : /\ Alike(Mem!Here, d, w) \/ Evicted(Mem!Here, d, w)
                                 /\ w \in Mem!Words(Code) => ~IsCached(d, w),
         i \in [0 .. ISets - 1 -> Mem!Lines],
         \A w \in Mem!Words(Code) : i[Mem!Line(w) % ISets].line = -1
  PROVE  MemoryIInv'
<1>1. /\ stage = flush /\ stage' = "run" /\ Mem!Here' = d /\ icache' = i
      /\ UNCHANGED <<flushda, copied, use, Mem!config, unsynced>>
  BY BecomesIs DEF Mem!Loaded
<1>2. Mem!Running = FALSE /\ Mem!Running' = TRUE /\ stage \notin DOMAIN Mem!After
  BY <1>1 DEF Mem!Running, Mem!After
<1>3. DataOK(Mem!Here, use, FALSE, unsynced) /\ use \in [Buffer -> Uses]
  <2>1. DataOK(Mem!Here, use, Mem!Running, unsynced) /\ use \in [Buffer -> Uses]
    BY DEF MemoryIInv, MemoryTypes
  <2> QED BY <1>2, <2>1
<1>4. DataOK(d, use, FALSE, unsynced)
  BY <1>3, EvictKeeps
<1>5. \A w \in Mem!Words(Code) : InMemory(d, w)
  BY <1>4, RegionWords DEF DataOK, Coh, InMemory
<1>6. DataOK(d, use, TRUE, unsynced)
  BY <1>4, <1>5 DEF DataOK
<1>7. DataOK(Mem!Here', use', Mem!Running', unsynced')
  BY <1>1, <1>2, <1>6
<1>8. MemoryTypes'
  BY <1>1, <1>2 DEF MemoryIInv, MemoryTypes, Mem!After
<1>9. FetchOK'
  <2>1. ASSUME NEW w \in Mem!Words(Code) PROVE ~Mem!Holds(icache', Mem!Line(w), ISets)
    <3>1. w \in Nat
      BY RegionWords, AllWordsNat
    <3>2. icache'[Mem!Line(w) % ISets].line = -1
      BY <1>1
    <3>3. Mem!Holds(icache', Mem!Line(w), ISets)
          <=> icache'[Mem!Line(w) % ISets].line = Mem!Line(w)
      BY DEF Mem!Holds
    <3>4. Mem!Line(w) # -1
      BY <3>1, NeverEmpty
    <3> QED BY <3>2, <3>3, <3>4
  <2> QED BY <2>1 DEF FetchOK
<1> QED BY <1>7, <1>8, <1>9 DEF MemoryIInv

LEMMA LoadAllIInv == ASSUME MemoryIInv, Mem!alt_load PROVE MemoryIInv'
<1> DEFINE d == Mem!alt_dcache_flush_all(Mem!Here)
           i == Mem!alt_icache_flush_all
<1>1. Mem!Loaded("flush all", d, i)
  BY DEF Mem!alt_load
<1>2. Wf(Mem!Here)
  BY DEF MemoryIInv, DataOK
<1>3. /\ Wf(d)
      /\ \A w \in Mem!AllWords : (Alike(Mem!Here, d, w) \/ Evicted(Mem!Here, d, w))
         /\ ~IsCached(d, w)
  BY <1>2, FlushAll
<1>4. Mem!VisitedSets(0, ISets * LineWords, ISets) = 0 .. ISets - 1
  <2>1. ISets * LineWords \in Nat /\ 0 \in Nat
    BY Sizes
  <2> QED BY <2>1, Sizes, VisitedSetsAre
<1>5. i = Mem!Dropped(icache, 0 .. ISets - 1)
  BY <1>4 DEF Mem!alt_icache_flush_all, Mem!alt_icache_flush
<1>6. /\ i \in [0 .. ISets - 1 -> Mem!Lines]
      /\ \A x \in 0 .. ISets - 1 : i[x].line = -1
  <2> DEFINE every == 0 .. ISets - 1
  <2>1. i = Mem!Dropped(icache, every)
    BY <1>5
  <2>2. \A x \in 0 .. ISets - 1 : x \in every
    OBVIOUS
  <2> HIDE DEF i, every
  <2>3. /\ i \in [0 .. ISets - 1 -> Mem!Lines]
        /\ \A x \in 0 .. ISets - 1 : x \in every => i[x].line = -1
    BY <2>1, DroppedIs, Zenon
  <2> QED BY <2>2, <2>3
<1>7. \A w \in Mem!Words(Code) : i[Mem!Line(w) % ISets].line = -1
  BY <1>6, RegionWords, AllWordsNat, LineNat
<1> HIDE DEF d, i
<1> QED BY <1>1, <1>3, <1>6, <1>7, LoadedIInv

LEMMA FlushOverlayIInv == ASSUME MemoryIInv, Mem!Flush_overlay PROVE MemoryIInv'
<1> DEFINE d == Mem!alt_dcache_flush(Mem!Here, Code.start, Code.len)
           i == Mem!alt_icache_flush(Code.start, Code.len)
<1>1. Mem!Loaded("flush overlay", d, i)
  BY DEF Mem!Flush_overlay
<1>2. Wf(Mem!Here) /\ Code.start \in Nat /\ Code.len \in Nat
  BY Sizes DEF MemoryIInv, DataOK, Region
<1>3. /\ Wf(d)
      /\ \A w \in Mem!AllWords : /\ Alike(Mem!Here, d, w) \/ Evicted(Mem!Here, d, w)
                                 /\ w \in Mem!Words(Code) => ~IsCached(d, w)
  BY <1>2, FlushRange DEF Mem!Words
<1>4. \A w \in Mem!Words(Code) :
        Mem!Line(w) % ISets \in Mem!VisitedSets(Code.start, Code.len, ISets)
  BY <1>2, Sizes, VisitedSetsAre DEF Mem!Words
<1>5. /\ i \in [0 .. ISets - 1 -> Mem!Lines]
      /\ \A x \in 0 .. ISets - 1 : x \in Mem!VisitedSets(Code.start, Code.len, ISets)
         => i[x].line = -1
  BY DroppedIs DEF Mem!alt_icache_flush
<1>6. \A w \in Mem!Words(Code) : i[Mem!Line(w) % ISets].line = -1
  BY <1>4, <1>5, RegionWords, AllWordsNat, LineNat
<1> HIDE DEF d, i
<1> QED BY <1>1, <1>3, <1>5, <1>6, LoadedIInv

LEMMA OverlayIInv == ASSUME MemoryIInv, Mem!Load_overlay PROVE MemoryIInv'
<1>1. /\ Mem!Running /\ stage = "run" /\ stage' = "overlay"
      /\ UNCHANGED <<flushda, Mem!data, icache, copied, use, Mem!config, unsynced>>
  BY DEF Mem!Load_overlay, Mem!Running
<1>2. Mem!Running' = FALSE
  BY <1>1 DEF Mem!Running
<1>3. DataOK(Mem!Here, use, FALSE, unsynced)
  BY <1>1 DEF MemoryIInv, DataOK, InMemory, Coh
<1>4. MemoryTypes'
  <2>1. "overlay" \in DOMAIN Mem!After /\ stage \notin DOMAIN Mem!After
        /\ Section["overlay"].len \in Nat
    BY <1>1, MemoryAssumption DEF Mem!After, SectionsPlaced
  <2> QED BY <1>1, <2>1 DEF MemoryIInv, MemoryTypes
<1>5. DataOK(Mem!Here', use', Mem!Running', unsynced')
  <2>1. Mem!Here' = Mem!Here
    BY <1>1, UnchangedIs
  <2> QED BY <1>1, <1>2, <1>3, <2>1
<1> QED BY <1>2, <1>4, <1>5 DEF MemoryIInv, FetchOK

(* Steps of the running program that leave the caches of code alone.       *)
LEMMA DataStep ==
  ASSUME MemoryIInv, Mem!Running, UNCHANGED <<icache, stage, copied>>,
         use' \in [Buffer -> Uses], unsynced' \subseteq Mem!Words(Flash),
         DataOK(Mem!Here', use', TRUE, unsynced')
  PROVE  MemoryIInv'
<1>1. Mem!Running' /\ MemoryTypes'
  BY DEF MemoryIInv, MemoryTypes, Mem!Running
<1>2. FetchOK'
  BY <1>1 DEF MemoryIInv, FetchOK
<1>3. DataOK(Mem!Here', use', Mem!Running', unsynced')
  BY <1>1
<1> QED BY <1>1, <1>2, <1>3 DEF MemoryIInv

LEMMA RunningNow == ASSUME MemoryIInv, Mem!Running
                    PROVE  /\ DataOK(Mem!Here, use, TRUE, unsynced) /\ use \in [Buffer -> Uses]
                           /\ unsynced \subseteq Mem!Words(Flash) /\ Wf(Mem!Here)
BY DEF MemoryIInv, MemoryTypes, DataOK

LEMMA FetchIInv == ASSUME MemoryIInv, NEW w \in Mem!AllWords, Mem!Fetch(w) PROVE MemoryIInv'
<1>1. /\ Mem!Running /\ w \in Mem!Words(Code)
      /\ UNCHANGED <<flushda, Mem!data, stage, copied, use, Mem!config, unsynced>>
      /\ icache' = IF Mem!Holds(icache, Mem!Line(w), ISets) THEN icache
                   ELSE [icache EXCEPT ![Mem!Line(w) % ISets] =
                           [line |-> Mem!Line(w), dirty |-> FALSE,
                             fresh |-> mem \intersect Mem!LineOf(Mem!Line(w))]]
  BY DEF Mem!Fetch
<1> DEFINE x == Mem!Line(w) % ISets
           new == [line |-> Mem!Line(w), dirty |-> FALSE,
             fresh |-> mem \intersect Mem!LineOf(Mem!Line(w))]
<1>2. Mem!Running' /\ DataOK(Mem!Here', use', Mem!Running', unsynced')
  <2>1. Mem!Running' <=> Mem!Running
    BY <1>1 DEF Mem!Running
  <2>2. Mem!Here' = Mem!Here /\ use' = use /\ unsynced' = unsynced
    BY <1>1, UnchangedIs
  <2> QED BY <1>1, <2>1, <2>2 DEF MemoryIInv
<1>3. x \in 0 .. ISets - 1 /\ Mem!Line(w) \in Nat
  BY AllWordsNat, LineNat
<1>4. mem \subseteq Nat /\ \A v \in Mem!Words(Code) : v \in mem
  <2>1. Mem!Here.mem = mem
    BY DEF Mem!Here
  <2> QED BY <1>1, <2>1, RunningNow, AllWordsNat DEF DataOK, Wf, Stores, InMemory
<1>5. icache \in [0 .. ISets - 1 -> Mem!Lines]
  BY DEF MemoryIInv, MemoryTypes
<1>6. new \in Mem!Lines
  <2>1. ASSUME NEW v \in mem PROVE v \in Int
    BY <1>4
  <2> QED BY <1>3, <2>1 DEF Mem!Lines
<1>7. MemoryTypes' /\ FetchOK'
  <2>1. CASE Mem!Holds(icache, Mem!Line(w), ISets)
    BY <1>1, <1>2, <2>1 DEF MemoryIInv, MemoryTypes, FetchOK
  <2>2. CASE ~Mem!Holds(icache, Mem!Line(w), ISets)
    <3>1. icache' = [icache EXCEPT ![x] = new]
      BY <1>1, <2>2
    <3>2. icache' \in [0 .. ISets - 1 -> Mem!Lines]
      BY <1>3, <1>5, <1>6, <3>1
    <3>3. ASSUME NEW v \in Mem!Words(Code), Mem!Holds(icache', Mem!Line(v), ISets)
          PROVE  v \in icache'[Mem!Line(v) % ISets].fresh
      <4>1. v \in Nat /\ Mem!Line(v) \in Nat /\ Mem!Line(v) % ISets \in 0 .. ISets - 1
        BY RegionWords, AllWordsNat, LineNat
      <4>2. CASE Mem!Line(v) % ISets = x
        <5>1. icache'[Mem!Line(v) % ISets] = new
          BY <1>5, <3>1, <4>1, <4>2
        <5>2. Mem!Line(v) = Mem!Line(w)
          BY <3>3, <5>1 DEF Mem!Holds
        <5>3. v \in Mem!LineOf(Mem!Line(w))
          BY <4>1, <5>2, LineIs
        <5> QED BY <1>4, <5>1, <5>3
      <4>3. CASE Mem!Line(v) % ISets # x
        <5>1. icache'[Mem!Line(v) % ISets] = icache[Mem!Line(v) % ISets]
          BY <1>5, <3>1, <4>1, <4>3
        <5> QED BY <1>1, <3>3, <5>1 DEF MemoryIInv, FetchOK, Mem!Holds
      <4> QED BY <4>2, <4>3
    <3> QED BY <1>1, <3>2, <3>3 DEF MemoryIInv, MemoryTypes, FetchOK
  <2> QED BY <2>1, <2>2
<1> QED BY <1>2, <1>7 DEF MemoryIInv

(* What the program reads or writes cached is on a line it may use.        *)
LEMMA AccessIs ==
  ASSUME MemoryIInv, Mem!Running, NEW w \in Mem!CachedWords \union Mem!Words(Flash)
  PROVE  /\ w \in Mem!AllWords /\ Spare(Mem!Line(w), use, TRUE)
         /\ w \in Mem!CachedWords => Mem!Line(w) \notin LinesOf(Flash)
<1>1. CASE w \in Mem!Words(ProgramData)
  BY <1>1, RegionWords, AllWordsNat, LineNat, Apart DEF Spare
<1>2. CASE w \in Mem!Words(Flash)
  <2>1. w \notin Mem!CachedWords
    <3>1. w \notin Mem!Words(ProgramData) /\ \A b \in Buffer : w \notin Mem!Words(b)
      BY <1>2, Apart, LinesOfIs
    <3> QED BY <3>1 DEF Mem!CachedWords
  <2> QED BY <1>2, <2>1, RegionWords, AllWordsNat, LineNat, Apart DEF Spare
<1>3. ASSUME NEW b \in Buffer, use[b] = "cached", w \in Mem!Words(b)
      PROVE  w \in Mem!AllWords /\ Spare(Mem!Line(w), use, TRUE)
             /\ Mem!Line(w) \notin LinesOf(Flash)
  <2>1. w \in Mem!AllWords /\ w \in Nat /\ Mem!Line(w) \in Nat
    BY <1>3, RegionWords, AllWordsNat, LineNat
  <2>2. Mem!Line(w) \notin LinesOf(Code) /\ Mem!Line(w) \notin LinesOf(Flash)
    BY <1>3, Apart
  <2>3. ASSUME NEW c \in Buffer, use[c] \notin {"free", "cached"}
        PROVE Mem!Line(w) \notin LinesOf(c)
    <3>1. c # b
      BY <1>3, <2>3
    <3> QED BY <1>3, <3>1, Apart
  <2> QED BY <2>1, <2>2, <2>3 DEF Spare
<1> QED BY <1>1, <1>2, <1>3 DEF Mem!CachedWords

LEMMA ReadIInv == ASSUME MemoryIInv, NEW w \in Mem!AllWords, Mem!Read(w) PROVE MemoryIInv'
<1> DEFINE t == Mem!Filled(Mem!Here, Mem!Line(w))
<1>1. /\ Mem!Running /\ w \in Mem!CachedWords \union Mem!Words(Flash) /\ Mem!Becomes(t)
      /\ UNCHANGED <<flushda, icache, stage, copied, use, Mem!config, unsynced>>
  BY DEF Mem!Read, Mem!Only_data
<1>2. DataOK(t, use, TRUE, unsynced)
  BY <1>1, RunningNow, AccessIs, FillKeeps
<1> HIDE DEF t
<1>3. Mem!Here' = t
  BY <1>1, <1>2, BecomesIs DEF DataOK
<1>4. DataOK(Mem!Here', use', TRUE, unsynced')
  BY <1>1, <1>2, <1>3
<1> QED BY <1>1, <1>4, RunningNow, DataStep

LEMMA WriteIInv == ASSUME MemoryIInv, NEW w \in Mem!AllWords, Mem!Write(w) PROVE MemoryIInv'
<1> DEFINE t == Mem!Stored(Mem!Here, w)
<1>1. /\ Mem!Running /\ w \in Mem!CachedWords /\ Mem!Becomes(t)
      /\ UNCHANGED <<flushda, icache, stage, copied, use, Mem!config, unsynced>>
  BY DEF Mem!Write, Mem!Only_data
<1>2. DataOK(t, use, TRUE, unsynced)
  BY <1>1, RunningNow, AccessIs, StoreKeeps
<1> HIDE DEF t
<1>3. Mem!Here' = t
  BY <1>1, <1>2, BecomesIs DEF DataOK
<1>4. DataOK(Mem!Here', use', TRUE, unsynced')
  BY <1>1, <1>2, <1>3
<1> QED BY <1>1, <1>4, RunningNow, DataStep

LEMMA WriteUncachedIInv == ASSUME MemoryIInv, NEW w \in Mem!AllWords, Mem!Write_uncached(w)
                           PROVE MemoryIInv'
<1> DEFINE t == Mem!Bypassed(Mem!Here, {w})
<1>1. /\ Mem!Running /\ Mem!Becomes(t)
      /\ UNCHANGED <<flushda, icache, stage, copied, use, Mem!config, unsynced>>
  BY DEF Mem!Write_uncached, Mem!Only_data
<1>2. PICK b \in Buffer : use[b] = "uncached" /\ w \in Mem!Words(b)
  BY DEF Mem!Write_uncached
<1>3. /\ Wf(t)
      /\ \A v \in Mem!AllWords : /\ v \notin {w} => Alike(Mem!Here, t, v)
                                 /\ IsCached(t, v) <=> IsCached(Mem!Here, v)
                                 /\ v \in {w} => v \in t.mem
  BY <1>1, RunningNow, BypassedIs
<1> HIDE DEF t
<1>4. ASSUME NEW v \in Mem!Words(b) PROVE HeldAs("uncached", t, v)
  <2>1. InMemory(Mem!Here, v) /\ v \in Mem!AllWords
    BY <1>1, <1>2, RunningNow, RegionWords DEF DataOK, HeldAs
  <2> QED BY <1>3, <2>1 DEF HeldAs, InMemory, Alike
<1>5. ASSUME NEW v \in Mem!AllWords, Mem!Line(v) \notin Touched(b) PROVE Alike(Mem!Here, t, v)
  <2>1. w \in Mem!LineOf(Mem!Line(w)) /\ Mem!Line(w) \in Touched(b)
    <3>1. b.start \in Nat /\ b.len \in Nat
      BY Sizes DEF Region
    <3>2. Mem!Line(w) \in Touched(b)
      BY <1>2, <3>1, Covers DEF Mem!Words, Touched
    <3> QED BY <3>2, AllWordsNat, LineNat, LineIs
  <2> QED BY <1>3, <1>5, <2>1
<1>6. DataOK(t, [use EXCEPT ![b] = "uncached"], TRUE, unsynced)
  BY <1>1, <1>3, <1>4, <1>5, RunningNow, HandData DEF Uses
<1>7. [use EXCEPT ![b] = "uncached"] = use
  BY <1>1, <1>2, RunningNow
<1>8. Mem!Here' = t
  BY <1>1, <1>3, BecomesIs
<1>9. DataOK(Mem!Here', use', TRUE, unsynced')
  BY <1>1, <1>6, <1>7, <1>8
<1> QED BY <1>1, <1>9, RunningNow, DataStep

(* A buffer that changes hands.                                            *)
LEMMA HandIInv ==
  ASSUME MemoryIInv, NEW b \in Buffer, NEW from, NEW to \in Uses, Mem!Hand(b, from, to),
         NEW t, Wf(t), Mem!Here' = t,
         \A w \in Mem!AllWords : Mem!Line(w) \notin Touched(b) => Alike(Mem!Here, t, w)
           \/ Evicted(Mem!Here, t, w),
         \A w \in Mem!Words(b) : w \in Mem!AllWords /\ HeldAs(from, Mem!Here, w)
           => HeldAs(to, t, w)
  PROVE  MemoryIInv'
<1>1. /\ Mem!Running /\ use[b] = from /\ use' = [use EXCEPT ![b] = to]
      /\ UNCHANGED <<flushda, icache, stage, copied, Mem!config, unsynced>>
  BY DEF Mem!Hand
<1>2. DataOK(Mem!Here, use, TRUE, unsynced) /\ use \in [Buffer -> Uses]
      /\ unsynced \subseteq Mem!Words(Flash)
  BY <1>1, RunningNow
<1>3. \A w \in Mem!Words(b) : HeldAs(to, t, w)
  BY <1>1, <1>2, RegionWords DEF DataOK
<1>4. DataOK(t, [use EXCEPT ![b] = to], TRUE, unsynced)
  BY <1>2, <1>3, HandData
<1>5. DataOK(Mem!Here', use', TRUE, unsynced')
  BY <1>1, <1>4
<1>6. use' \in [Buffer -> Uses] /\ unsynced' \subseteq Mem!Words(Flash)
  BY <1>1, <1>2
<1> QED BY <1>1, <1>5, <1>6, DataStep

LEMMA SameHere == ASSUME NEW s, NEW w PROVE Alike(s, s, w)
BY DEF Alike

(* ... with nothing flushed.                                               *)
LEMMA PassIInv ==
  ASSUME MemoryIInv, NEW b \in Buffer, NEW from, NEW to \in Uses, Mem!Hand(b, from, to),
         UNCHANGED Mem!data,
         \A w \in Mem!Words(b) : HeldAs(from, Mem!Here, w) => HeldAs(to, Mem!Here, w)
  PROVE  MemoryIInv'
<1>1. Mem!Here' = Mem!Here /\ Wf(Mem!Here)
  BY UnchangedIs DEF MemoryIInv, DataOK
<1> QED BY <1>1, SameHere, HandIInv

(* ... flushed on the way: memory holds all of it.                         *)
LEMMA FlushedIInv ==
  ASSUME MemoryIInv, NEW b \in Buffer, NEW from \in {"free", "cached"}, NEW to \in Uses,
         Mem!Hand(b, from, to),
         to \in {"uncached", "posted cached"},
         Mem!Becomes(Mem!alt_dcache_flush(Mem!Here, b.start, b.len))
  PROVE  MemoryIInv'
<1> DEFINE t == Mem!alt_dcache_flush(Mem!Here, b.start, b.len)
<1>1. Wf(Mem!Here) /\ b.start \in Nat /\ b.len \in Nat
  BY Sizes DEF MemoryIInv, DataOK, Region
<1>2. /\ Wf(t)
      /\ \A w \in Mem!AllWords : /\ Alike(Mem!Here, t, w) \/ Evicted(Mem!Here, t, w)
                                 /\ w \in Mem!Words(b) => ~IsCached(t, w)
  BY <1>1, FlushRange DEF Mem!Words
<1> HIDE DEF t
<1>3. Mem!Here' = t
  BY <1>2, BecomesIs DEF t
<1>4. ASSUME NEW w \in Mem!Words(b), w \in Mem!AllWords, HeldAs(from, Mem!Here, w)
      PROVE HeldAs(to, t, w)
  <2>1. Coh(Mem!Here, w)
    BY <1>4 DEF HeldAs
  <2>2. Coh(t, w) /\ ~IsCached(t, w)
    BY <1>2, <1>4, <2>1, CohKept
  <2> QED BY <2>2 DEF HeldAs, Coh, InMemory
<1> QED BY <1>2, <1>3, <1>4, HandIInv

(* A receive is posted: the lines go, memory need not hold the last value. *)
LEMMA DiscardIInv ==
  ASSUME Initda, MemoryIInv, NEW b \in Buffer, Mem!Hand(b, "cached", "filling cached"),
         Mem!Becomes(Mem!alt_dcache_flush_no_writeback(Mem!Here, b.start, b.len))
  PROVE  MemoryIInv'
<1> DEFINE t == Mem!alt_dcache_flush_no_writeback(Mem!Here, b.start, b.len)
<1>1. Wf(Mem!Here) /\ b.start \in Nat /\ b.len \in Nat
  BY Sizes DEF MemoryIInv, DataOK, Region
<1>2. /\ Wf(t)
      /\ \A w \in Mem!AllWords : /\ w \in Mem!Words(b) => ~IsCached(t, w)
                                 /\ Mem!Line(w) \notin Touched(b) => Alike(Mem!Here, t, w)
  BY <1>1, DiscardIs DEF Mem!Words, Touched
<1> HIDE DEF t
<1>3. Mem!Here' = t
  BY <1>2, BecomesIs DEF t
<1>4. "filling cached" \in Uses
  BY DEF Uses
<1>5. \A w \in Mem!Words(b) : w \in Mem!AllWords => HeldAs("filling cached", t, w)
  BY <1>2 DEF HeldAs
<1> QED BY <1>2, <1>3, <1>4, <1>5, HandIInv

(* A receive has ended: the device wrote all of it behind the cache.       *)
LEMMA ReceivedIInv ==
  ASSUME MemoryIInv, NEW b \in Buffer, Mem!Received(b)
  PROVE  MemoryIInv'
<1> DEFINE t == Mem!Bypassed(Mem!Here, Mem!Words(b))
<1>1. Wf(Mem!Here) /\ Mem!Words(b) \subseteq Mem!AllWords /\ Mem!Becomes(t)
  BY RegionWords DEF MemoryIInv, DataOK, Mem!Received
<1>2. /\ Wf(t)
      /\ \A w \in Mem!AllWords : /\ w \notin Mem!Words(b) => Alike(Mem!Here, t, w)
                                 /\ IsCached(t, w) <=> IsCached(Mem!Here, w)
                                 /\ w \in Mem!Words(b) => w \in t.mem
  BY <1>1, BypassedIs
<1> HIDE DEF t
<1>3. Mem!Here' = t
  BY <1>1, <1>2, BecomesIs
<1>4. ASSUME NEW w \in Mem!AllWords, Mem!Line(w) \notin Touched(b) PROVE Alike(Mem!Here, t, w)
  <2>1. b.start \in Nat /\ b.len \in Nat
    BY Sizes DEF Region
  <2>2. w \notin Mem!Words(b)
    BY <1>4, <2>1, Covers DEF Mem!Words, Touched
  <2> QED BY <1>2, <2>2
<1>5. ASSUME NEW from \in {"filling", "filling cached"}, NEW to \in {"uncached", "cached"},
             NEW w \in Mem!Words(b), w \in Mem!AllWords, HeldAs(from, Mem!Here, w)
      PROVE  HeldAs(to, t, w)
  <2>1. ~IsCached(t, w) /\ w \in t.mem
    BY <1>2, <1>5 DEF HeldAs
  <2> QED BY <1>5, <2>1 DEF HeldAs, InMemory, Coh
<1>6. CASE Mem!Hand(b, "filling", "uncached")
  <2>1. \A w \in Mem!Words(b) : w \in Mem!AllWords /\ HeldAs("filling", Mem!Here, w)
        => HeldAs("uncached", t, w)
    BY <1>5
  <2> QED BY <1>2, <1>3, <1>4, <1>6, <2>1, HandIInv DEF Uses
<1>7. CASE Mem!Hand(b, "filling cached", "cached")
  <2>1. \A w \in Mem!Words(b) : w \in Mem!AllWords /\ HeldAs("filling cached", Mem!Here, w)
        => HeldAs("cached", t, w)
    BY <1>5
  <2> QED BY <1>2, <1>3, <1>4, <1>7, <2>1, HandIInv DEF Uses
<1> QED BY <1>6, <1>7 DEF Mem!Received

LEMMA BufferIInv ==
  ASSUME Initda, MemoryIInv, NEW b \in Buffer,
         \/ Mem!malloc(b) \/ Mem!free(b) \/ Mem!alt_uncached_malloc(b) \/ Mem!alt_uncached_free(b)
         \/ Mem!alt_remap_uncached(b) \/ Mem!alt_remap_cached(b)
         \/ Mem!alt_dma_txchan_send(b) \/ Mem!alt_dma_rxchan_prepare(b) \/ Mem!Sent(b)
            \/ Mem!Received(b)
  PROVE  MemoryIInv'
<1>1. /\ \A w : HeldAs("free", Mem!Here, w) <=> HeldAs("cached", Mem!Here, w)
      /\ \A w : HeldAs("uncached", Mem!Here, w) => HeldAs("free", Mem!Here, w)
         /\ HeldAs("cached", Mem!Here, w)
      /\ \A w : HeldAs("uncached", Mem!Here, w) => HeldAs("posted", Mem!Here, w)
         /\ HeldAs("filling", Mem!Here, w)
      /\ \A w : HeldAs("posted", Mem!Here, w) => HeldAs("uncached", Mem!Here, w)
      /\ \A w : HeldAs("posted cached", Mem!Here, w) => HeldAs("cached", Mem!Here, w)
  BY DEF HeldAs, InMemory, Coh
<1>2. CASE Mem!malloc(b)
  BY <1>1, <1>2, PassIInv DEF Mem!malloc, Uses
<1>3. CASE Mem!free(b)
  BY <1>1, <1>3, PassIInv DEF Mem!free, Uses
<1>4. CASE Mem!alt_uncached_malloc(b)
  BY <1>4, FlushedIInv DEF Mem!alt_uncached_malloc, Uses
<1>5. CASE Mem!alt_uncached_free(b)
  BY <1>1, <1>5, PassIInv DEF Mem!alt_uncached_free, Uses
<1>6. CASE Mem!alt_remap_uncached(b)
  BY <1>6, FlushedIInv DEF Mem!alt_remap_uncached, Uses
<1>7. CASE Mem!alt_remap_cached(b)
  BY <1>1, <1>7, PassIInv DEF Mem!alt_remap_cached, Uses
<1>8. CASE Mem!alt_dma_txchan_send(b)
  <2>1. CASE Mem!Hand(b, "uncached", "posted") /\ UNCHANGED Mem!data
    BY <1>1, <2>1, PassIInv DEF Uses
  <2>2. CASE Mem!Hand(b, "cached", "posted cached")
             /\ Mem!Becomes(Mem!alt_dcache_flush(Mem!Here, b.start, b.len))
    BY <2>2, FlushedIInv DEF Uses
  <2> QED BY <1>8, <2>1, <2>2 DEF Mem!alt_dma_txchan_send
<1>9. CASE Mem!alt_dma_rxchan_prepare(b)
  <2>1. CASE Mem!Hand(b, "uncached", "filling") /\ UNCHANGED Mem!data
    BY <1>1, <2>1, PassIInv DEF Uses
  <2>2. CASE Mem!Hand(b, "cached", "filling cached")
             /\ Mem!Becomes(Mem!alt_dcache_flush_no_writeback(Mem!Here, b.start, b.len))
    BY <2>2, DiscardIInv
  <2> QED BY <1>9, <2>1, <2>2 DEF Mem!alt_dma_rxchan_prepare
<1>10. CASE Mem!Sent(b)
  <2>1. CASE Mem!Hand(b, "posted", "uncached") /\ UNCHANGED Mem!data
    BY <1>1, <2>1, PassIInv DEF Uses
  <2>2. CASE Mem!Hand(b, "posted cached", "cached") /\ UNCHANGED Mem!data
    BY <1>1, <2>2, PassIInv DEF Uses
  <2> QED BY <1>10, <2>1, <2>2 DEF Mem!Sent
<1>11. CASE Mem!Received(b)
  BY <1>11, ReceivedIInv
<1> QED BY <1>2, <1>3, <1>4, <1>5, <1>6, <1>7, <1>8, <1>9, <1>10, <1>11

(* A part of the flash changes behind the cache.                           *)
LEMMA ChangedIInv ==
  ASSUME MemoryIInv, NEW part, part.start \in Nat, part.len \in Nat,
         Mem!Words(part) \subseteq Mem!Words(Flash),
         NEW ok \in BOOLEAN, Mem!Changed(part, ok)
  PROVE  MemoryIInv'
<1> DEFINE s == Mem!Bypassed(Mem!Here, Mem!Words(part))
           t == IF ok THEN Mem!alt_dcache_flush(s, part.start, part.len) ELSE s
           un == IF ok THEN unsynced \ Mem!Words(part) ELSE unsynced \union Mem!Words(part)
<1>1. /\ Mem!Running /\ Mem!Becomes(t) /\ unsynced' = un
      /\ UNCHANGED <<flushda, icache, stage, copied, use, Mem!config>>
  BY DEF Mem!Changed
<1>2. /\ DataOK(Mem!Here, use, TRUE, unsynced) /\ use \in [Buffer -> Uses]
      /\ unsynced \subseteq Mem!Words(Flash) /\ Wf(Mem!Here)
  BY <1>1, RunningNow
<1>3. Mem!Words(part) \subseteq Mem!AllWords
  BY RegionWords
<1>4. /\ Wf(s)
      /\ \A v \in Mem!AllWords : /\ v \notin Mem!Words(part) => Alike(Mem!Here, s, v)
                                 /\ IsCached(s, v) <=> IsCached(Mem!Here, v)
                                 /\ LineAt(s, v).dirty = LineAt(Mem!Here, v).dirty
                                 /\ v \in Mem!Words(part) => v \in s.mem
  BY <1>2, <1>3, BypassedIs
<1>5. DataOK(s, use, TRUE, unsynced \union Mem!Words(part))
  <2>1. ASSUME NEW v \in Mem!AllWords, v \notin Mem!Words(Flash) PROVE Alike(Mem!Here, s, v)
    BY <1>4, <2>1
  <2>2. \A v \in Mem!Words(ProgramData) : v \in Mem!AllWords /\ v \notin Mem!Words(Flash)
    BY RegionWords, Apart, LinesOfIs
  <2>3. \A v \in Mem!Words(Code) : v \in Mem!AllWords /\ v \notin Mem!Words(Flash)
    BY RegionWords, Apart, LinesOfIs
  <2>4. \A b \in Buffer : \A v \in Mem!Words(b) : v \in Mem!AllWords /\ v \notin Mem!Words(Flash)
    BY RegionWords, Apart, LinesOfIs
  <2>5. \A v \in Mem!Words(ProgramData) : Coh(s, v)
    BY <1>2, <2>1, <2>2, CohKept DEF DataOK
  <2>6. \A b \in Buffer : \A v \in Mem!Words(b) : HeldAs(use[b], s, v)
    BY <1>2, <2>1, <2>4, HeldKept DEF DataOK
  <2>7. \A v \in Mem!Words(Code) : InMemory(s, v)
    BY <1>2, <2>1, <2>3 DEF DataOK, InMemory, Alike
  <2>8. ASSUME NEW v \in Mem!Words(Flash)
        PROVE  Clean(s, v) /\ (v \notin unsynced \union Mem!Words(part) => Synced(s, v))
    <3>1. v \in Mem!AllWords /\ Clean(Mem!Here, v) /\ (v \notin unsynced => Synced(Mem!Here, v))
      BY <1>2, RegionWords DEF DataOK
    <3>2. CASE v \in Mem!Words(part)
      BY <1>4, <3>1, <3>2 DEF Clean
    <3>3. CASE v \notin Mem!Words(part)
      BY <1>4, <3>1, <3>3, CleanKept
    <3> QED BY <3>2, <3>3
  <2> QED BY <1>4, <2>5, <2>6, <2>7, <2>8 DEF DataOK
<1> HIDE DEF s
<1>6. DataOK(t, use, TRUE, un)
  <2>1. CASE ok
    <3>1. t = Mem!alt_dcache_flush(s, part.start, part.len) /\ un = unsynced \ Mem!Words(part)
      BY <2>1
    <3> HIDE DEF t, un
    <3>2. /\ Wf(t)
          /\ \A w \in Mem!AllWords : /\ Alike(s, t, w) \/ Evicted(s, t, w)
                                     /\ w \in Mem!Words(part) => ~IsCached(t, w)
      BY <1>4, <3>1, FlushRange DEF Mem!Words
    <3>3. DataOK(t, use, TRUE, unsynced \union Mem!Words(part))
      BY <1>2, <1>5, <3>2, EvictKeeps
    <3>4. \A w \in Mem!Words(part) : Synced(t, w)
      BY <1>3, <3>2 DEF Synced
    <3> QED BY <3>1, <3>3, <3>4 DEF DataOK
  <2>2. CASE ~ok
    BY <1>5, <2>2
  <2> QED BY <2>1, <2>2
<1>7. un \subseteq Mem!Words(Flash)
  BY <1>2
<1> HIDE DEF t, un
<1>8. Mem!Here' = t
  BY <1>1, <1>6, BecomesIs DEF DataOK
<1>9. DataOK(Mem!Here', use', TRUE, unsynced')
  BY <1>1, <1>6, <1>8
<1> QED BY <1>1, <1>2, <1>7, <1>9, DataStep

LEMMA IdleMemoryIInv ==
  ASSUME MemoryIInv, UNCHANGED <<mem, dcache, icache, stage, copied, use, unsynced>>
  PROVE  MemoryIInv'
<1>1. Mem!Here' = Mem!Here
  BY DEF Mem!Here
<1>2. MemoryTypes' /\ FetchOK' /\ Mem!Running' = Mem!Running
  BY DEF MemoryIInv, MemoryTypes, FetchOK, Mem!Running
<1>3. DataOK(Mem!Here', use', Mem!Running', unsynced')
  BY <1>1, <1>2 DEF MemoryIInv
<1> QED BY <1>2, <1>3 DEF MemoryIInv

LEMMA DeviceIInv ==
  ASSUME MemoryIInv,
         \/ Mem!alt_dma_txchan_reg \/ Mem!alt_dma_rxchan_reg \/ Mem!alt_flash_device_register
         \/ Mem!alt_dma_txchan_open \/ Mem!alt_dma_rxchan_open
         \/ Mem!alt_flash_open_dev \/ Mem!alt_flash_close_dev
  PROVE  MemoryIInv'
<1>1. UNCHANGED <<mem, dcache, icache, stage, copied, use, unsynced>>
  BY DEF Mem!alt_dma_txchan_reg, Mem!alt_dma_rxchan_reg, Mem!alt_flash_device_register,
     Mem!alt_dma_txchan_open,
         Mem!alt_dma_rxchan_open, Mem!alt_flash_open_dev, Mem!alt_flash_close_dev, Mem!Register,
           Mem!Open, Mem!data
<1> QED BY <1>1, IdleMemoryIInv

LEMMA PartIs ==
  ASSUME NEW part \in Mem!FlashPart
  PROVE  part.start \in Nat /\ part.len \in Nat
<1>1. Flash.len \in Nat /\ Mem!Words(Flash) \subseteq Nat
  BY Sizes, WordsNat DEF Region
<1>2. part.start \in Mem!Words(Flash) /\ part.len \in 1 .. Flash.len
  BY DEF Mem!FlashPart
<1> QED BY <1>1, <1>2

LEMMA FlashIInv ==
  ASSUME MemoryIInv,
         \/ \E ok \in BOOLEAN :
              \/ Mem!alt_erase_flash_block(ok)
              \/ \E part \in Mem!FlashPart : Mem!Words(part) \subseteq Mem!Words(Flash)
                                            /\ Mem!alt_write_flash_block(part, ok)
         \/ \E part \in Mem!FlashPart : Mem!Words(part) \subseteq Mem!Words(Flash)
            /\ Mem!alt_write_flash(part)
  PROVE  MemoryIInv'
<1>1. Flash.start \in Nat /\ Flash.len \in Nat
  BY Sizes DEF Region
<1>2. ASSUME NEW ok \in BOOLEAN, Mem!alt_erase_flash_block(ok) PROVE MemoryIInv'
  BY <1>1, <1>2, ChangedIInv DEF Mem!alt_erase_flash_block
<1>3. ASSUME NEW ok \in BOOLEAN, NEW part \in Mem!FlashPart,
             Mem!Words(part) \subseteq Mem!Words(Flash),
             Mem!alt_write_flash_block(part, ok)
      PROVE  MemoryIInv'
  BY <1>3, PartIs, ChangedIInv DEF Mem!alt_write_flash_block
<1>4. ASSUME NEW part \in Mem!FlashPart, Mem!Words(part) \subseteq Mem!Words(Flash),
             Mem!alt_write_flash(part)
      PROVE  MemoryIInv'
  BY <1>4, PartIs, ChangedIInv DEF Mem!alt_write_flash
<1> QED BY <1>2, <1>3, <1>4

LEMMA NextMemoryIInv == ASSUME Initda, MemoryIInv, [Mem!Next]_Mem!vars PROVE MemoryIInv'
<1>1. CASE Mem!alt_load_section \/ Mem!alt_load \/ Mem!Load_overlay \/ Mem!Flush_overlay
  BY <1>1, LoadIInv, LoadAllIInv, OverlayIInv, FlushOverlayIInv
<1>2. CASE \E w \in Mem!AllWords : Mem!Fetch(w) \/ Mem!Read(w) \/ Mem!Write(w)
           \/ Mem!Write_uncached(w)
  BY <1>2, FetchIInv, ReadIInv, WriteIInv, WriteUncachedIInv
<1>3. CASE \E b \in Buffer :
             \/ Mem!malloc(b) \/ Mem!free(b) \/ Mem!alt_uncached_malloc(b)
                \/ Mem!alt_uncached_free(b)
             \/ Mem!alt_remap_uncached(b) \/ Mem!alt_remap_cached(b)
             \/ Mem!alt_dma_txchan_send(b) \/ Mem!alt_dma_rxchan_prepare(b) \/ Mem!Sent(b)
                \/ Mem!Received(b)
  <2>1. PICK b \in Buffer :
             \/ Mem!malloc(b) \/ Mem!free(b) \/ Mem!alt_uncached_malloc(b)
                \/ Mem!alt_uncached_free(b)
             \/ Mem!alt_remap_uncached(b) \/ Mem!alt_remap_cached(b)
             \/ Mem!alt_dma_txchan_send(b) \/ Mem!alt_dma_rxchan_prepare(b) \/ Mem!Sent(b)
                \/ Mem!Received(b)
    BY <1>3
  <2> QED BY <2>1, BufferIInv
<1>4. CASE UNCHANGED Mem!vars
  BY <1>4, IdleMemoryIInv DEF Mem!vars
<1> QED BY <1>1, <1>2, <1>3, <1>4, DeviceIInv, FlashIInv DEF Mem!Next

LEMMA MemoryIsSafe == ASSUME MemoryIInv PROVE Mem!SafeMemory
<1>1. Mem!TypeOK
  <2>1. Mem!Here.mem = mem /\ Mem!Here.lines = dcache
    BY DEF Mem!Here
  <2>2. mem \subseteq Mem!AllWords /\ dcache \in [0 .. DSets - 1 -> Mem!Lines]
    BY <2>1 DEF MemoryIInv, DataOK, Wf, Stores
  <2>3. ASSUME NEW x \in 0 .. DSets - 1
        PROVE  /\ dcache[x] \in Mem!Lines
               /\ dcache[x] # Mem!Empty => /\ dcache[x].line % DSets = x
                                           /\ dcache[x].fresh \subseteq Mem!LineOf(dcache[x].line)
    BY <2>1, <2>2 DEF MemoryIInv, DataOK, Wf
  <2> QED BY <2>2, <2>3 DEF MemoryIInv, MemoryTypes, Uses, Mem!TypeOK
<1>2. ASSUME Mem!Running PROVE Mem!Coherent
  <2>1. DataOK(Mem!Here, use, TRUE, unsynced) /\ Mem!Here.mem = mem /\ Mem!Here.lines = dcache
    BY <1>2, RunningNow DEF Mem!Here
  <2>2. ASSUME NEW w, Coh(Mem!Here, w) PROVE Mem!Seen(dcache, w, DSets)
    BY <2>1, <2>2 DEF Coh, Mem!Seen, IsCached, IsFresh, LineAt, Mem!Holds
  <2>3. \A w \in Mem!Words(ProgramData) : Mem!Seen(dcache, w, DSets)
    BY <2>1, <2>2 DEF DataOK
  <2>4. \A w \in Mem!InUse({"cached"}) : Mem!Seen(dcache, w, DSets)
    BY <2>1, <2>2 DEF DataOK, Mem!InUse, HeldAs
  <2>5. \A w \in Mem!Words(Flash) \ unsynced : Mem!Seen(dcache, w, DSets)
    BY <2>1 DEF DataOK, Clean, Synced, Mem!Seen, IsCached, IsFresh, LineAt, Mem!Holds
  <2>6. Mem!InUse({"uncached", "posted", "posted cached"}) \subseteq mem
    BY <2>1 DEF DataOK, Mem!InUse, HeldAs, InMemory
  <2>7. \A w \in Mem!Words(Code) : Mem!Seen(icache, w, ISets)
    BY <1>2, <2>1 DEF MemoryIInv, FetchOK, DataOK, InMemory, Mem!Seen
  <2> QED BY <2>3, <2>4, <2>5, <2>6, <2>7 DEF Mem!Coherent
<1> QED BY <1>1, <1>2 DEF Mem!SafeMemory, Mem!Coherent

(* SafeMemory of the run: whatever the program loads, fetches, reads and   *)
(* writes through either kind of pointer, hands over, sends, receives and  *)
(* changes in flash, the copy it or a device reads next is the last one    *)
(* written.  A receive into cached memory discards its lines with initda;  *)
(* a processor that has a data cache and no initda is not covered.         *)
THEOREM MemorySound == ASSUME Initda PROVE HalSpec => []SafeMemory
<1>1. HalInit => MemoryIInv
  BY InitMemoryIInv DEF HalInit
<1>2. MemoryIInv /\ [HalNext]_<<vars, memory>> => MemoryIInv'
  <2>1. [HalNext]_<<vars, memory>> => [Mem!Next]_(Mem!vars)
    BY DEF HalNext, memory, Mem!vars
  <2> QED BY <2>1, NextMemoryIInv
<1>3. MemoryIInv => SafeMemory
  BY MemoryIsSafe DEF SafeMemory
<1> QED BY <1>1, <1>2, <1>3, PTL DEF HalSpec
=============================================================================
