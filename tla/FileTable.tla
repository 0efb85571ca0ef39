------------------------------ MODULE FileTable ------------------------------
(***************************************************************************)
(* The file layer of the HAL: the descriptor table alt_fd_list, the lists  *)
(* of devices and file systems, the POSIX-like calls that use them, and    *)
(* the life of the program around them, from alt_main to _exit.            *)
(*                                                                         *)
(* A path is the sequence of its components.  A failing call returns the   *)
(* negated error number it leaves in ALT_ERRNO.  A driver callback that    *)
(* exists returns any of DriverResults.  The program passes the            *)
(* descriptors it holds, and -1.                                           *)
(***************************************************************************)
EXTENDS Integers, FiniteSetsExt, SequencesExt

CONSTANTS Device,        \* every device and file system
          FileSystem,    \* those that register with alt_fs_reg
          None, NullDev, Uart,
          Callbacks,     \* the driver functions each device implements
          NameOf,        \* the path each device is registered under
          Path,          \* the paths the program opens
          MaxFd,         \* ALT_MAX_FD
          DriverResults, \* what a driver function may return
          OpenFlags      \* the flags the program may pass beside the access mode

ASSUME TableAssumption ==
  /\ None \notin Device \union 0 .. MaxFd - 1 /\ FileSystem \subseteq Device
  /\ NullDev \in Device \ FileSystem /\ Uart \in Device \ FileSystem
  /\ MaxFd \in Nat /\ MaxFd > 3
  /\ DriverResults \subseteq Int /\ 0 \in DriverResults
  /\ OpenFlags \subseteq {"O_NONBLOCK", "O_APPEND"}
  /\ Callbacks \in [Device -> SUBSET {"open", "close", "read", "write", "lseek", "fstat", "ioctl"}]

ECHILD == 10
EWOULDBLOCK == 11
EACCES == 13
ENODEV == 19
EINVAL == 22
EMFILE == 24
ENOTTY == 25
ESRCH == 3
EBADFD == 81
ENOSYS == 88
ENOTSUP == 134

Fd       == 0 .. MaxFd - 1
STDIN_FILENO  == 0
STDOUT_FILENO == 1
STDERR_FILENO == 2
Mode     == {"O_RDONLY", "O_WRONLY", "O_RDWR"}
FdFlag   == {"ALT_FD_EXCL", "ALT_FD_DEV"}          \* ALT_FD_FLAGS_MASK
alt_fd   == [dev : Device \union {None}, mode : Mode,
             flags : SUBSET (OpenFlags \union FdFlag)]
FreeFd   == [dev |-> None, mode |-> "O_RDONLY", flags |-> {}]

VARIABLES alt_fd_list, alt_max_fd,
          alt_dev_list, alt_fs_list,
          step,          \* where alt_main is
          ret,           \* what the last call returned
          held           \* history: the descriptors the program holds

table == <<alt_fd_list, alt_max_fd>>
lists == <<alt_dev_list, alt_fs_list>>
vars  == <<alt_fd_list, alt_max_fd, alt_dev_list, alt_fs_list, step, ret, held>>

Init == /\ alt_fd_list = [i \in Fd |-> IF i <= STDERR_FILENO
                                       THEN [FreeFd EXCEPT !.dev = NullDev] ELSE FreeFd]
        /\ alt_max_fd = -1
        /\ alt_dev_list = <<NullDev>> /\ alt_fs_list = <<>>
        /\ step = "alt_sys_init" /\ ret = 0 /\ held = {}

-----------------------------------------------------------------------------
(* Lists of devices, looked up front to back; new entries go to the front. *)

alt_llist_insert(list, dev) == <<dev>> \o list

(* A device without a name is refused.                                     *)
alt_dev_llist_insert(dev, list) ==
  IF NameOf[dev] = None THEN list ELSE alt_llist_insert(list, dev)

alt_dev_reg(dev) == alt_dev_list' = alt_dev_llist_insert(dev, alt_dev_list)

FirstIn(list, Match(_)) ==
  LET hits == {i \in DOMAIN list : Match(list[i])}
  IN  IF hits = {} THEN None ELSE list[Min(hits)]

alt_find_dev(name) == LET Same(d) == NameOf[d] = name IN FirstIn(alt_dev_list, Same)

(* A file system is found by the part of the path it is mounted at.        *)
alt_find_file(name) == LET Mounted(d) == IsPrefix(NameOf[d], name)
                       IN  FirstIn(alt_fs_list, Mounted)

-----------------------------------------------------------------------------
(* Descriptors.                                                            *)

Has(dev, callback) == callback \in Callbacks[dev]
Result(dev, callback, r, otherwise) == IF Has(dev, callback) THEN r ELSE otherwise

alt_get_fd == LET free == {i \in Fd : alt_fd_list[i].dev = None}
              IN  IF free = {} THEN -EMFILE ELSE Min(free)

alt_release_fd_KeepFlags(fds, i) ==
  IF i > STDERR_FILENO THEN [fds EXCEPT ![i].dev = None] ELSE fds

alt_release_fd(fds, i) == IF i > STDERR_FILENO THEN [fds EXCEPT ![i] = FreeFd] ELSE fds

alt_file_locked_OneShort(fds, max, i) ==
  \E j \in (0 .. max - 1) \ {i} : /\ fds[j].dev = fds[i].dev
                                  /\ "ALT_FD_EXCL" \in fds[j].flags

alt_file_locked(fds, max, i) ==
  \E j \in (0 .. max) \ {i} : /\ fds[j].dev = fds[i].dev
                            /\ "ALT_FD_EXCL" \in fds[j].flags

(* open(): the table it leaves and its result, when the driver's own open  *)
(* (if it has one) returns r.                                              *)
OpenOutcome(name, mode, flags, r) ==
  LET found == alt_find_dev(name)
      isafs == found = None
      dev   == IF isafs THEN alt_find_file(name) ELSE found
      index == IF dev = None THEN -ENODEV ELSE alt_get_fd
      taken == [alt_fd_list EXCEPT ![index] =
                  [dev |-> dev, mode |-> mode,
                   flags |-> flags \union (IF isafs THEN {} ELSE {"ALT_FD_DEV"})]]
      max   == IF index > alt_max_fd THEN index ELSE alt_max_fd
      status == IF ~isafs /\ alt_file_locked(taken, max, index) THEN -EACCES
                ELSE Result(dev, "open", r, 0)
  IN  IF index < 0 THEN [fds |-> alt_fd_list, max |-> alt_max_fd, rc |-> index]
      ELSE IF status < 0
           THEN [fds |-> alt_release_fd(taken, index), max |-> max, rc |-> status]
           ELSE [fds |-> taken, max |-> max, rc |-> index]

-----------------------------------------------------------------------------
(* Start-up.                                                               *)

At(here, next) == step = here /\ step' = next

(* ALTERA_AVALON_JTAG_UART_INIT ends with alt_dev_reg.                     *)
alt_sys_init == /\ At("alt_sys_init", "stdout")
                /\ alt_dev_reg(Uart)
                /\ UNCHANGED <<table, alt_fs_list, ret, held>>

alt_open_fd(fd, mode) ==
  \E r \in DriverResults :
    LET old == OpenOutcome(NameOf[Uart], mode, {}, r)
    IN  /\ alt_fd_list' = IF old.rc >= 0
                          THEN alt_release_fd([old.fds EXCEPT ![fd] = old.fds[old.rc]], old.rc)
                          ELSE old.fds
        /\ alt_max_fd' = old.max
        /\ UNCHANGED <<lists, ret, held>>

alt_io_redirect == \/ At("stdout", "stdin") /\ alt_open_fd(STDOUT_FILENO, "O_WRONLY")
                   \/ At("stdin", "stderr") /\ alt_open_fd(STDIN_FILENO, "O_RDONLY")
                   \/ At("stderr", "main")  /\ alt_open_fd(STDERR_FILENO, "O_WRONLY")

-----------------------------------------------------------------------------
(* The calls of the program, from constructors, main or atexit functions.  *)

Running == step \in {"main", "exit"}
Call(rc) == Running /\ ret' = rc /\ UNCHANGED <<lists, step>>
Leaves  == UNCHANGED <<table, held>>

Usable == held \union 0 .. STDERR_FILENO

alt_fs_reg(dev) == /\ Running /\ dev \in FileSystem \ ToSet(alt_fs_list)
                   /\ IF NameOf[dev] = None
                      THEN ret' = -ENODEV /\ UNCHANGED alt_fs_list
                      ELSE ret' = 0 /\ alt_fs_list' = alt_llist_insert(alt_fs_list, dev)
                   /\ UNCHANGED <<table, alt_dev_list, step, held>>

ALT_OPEN(name, mode, flags) ==
  \E r \in DriverResults :
    LET o == OpenOutcome(name, mode, flags, r)
    IN  /\ Call(o.rc)
        /\ alt_fd_list' = o.fds /\ alt_max_fd' = o.max
        /\ held' = IF o.rc >= 0 THEN held \union {o.rc} ELSE held

(* The descriptor is gone whatever the driver's close says.                *)
ALT_CLOSE(fildes) ==
  IF fildes < 0 THEN Call(-EBADFD) /\ Leaves
  ELSE \E r \in DriverResults :
         /\ Call(Result(alt_fd_list[fildes].dev, "close", r, 0))
         /\ alt_fd_list' = alt_release_fd(alt_fd_list, fildes)
         /\ held' = held \ {fildes}
         /\ UNCHANGED alt_max_fd

(* read() and write(): the mode must allow it and the driver must do it.   *)
Transfer(file, callback, forbidden) ==
  /\ Leaves
  /\ IF file < 0 THEN Call(-EBADFD)
     ELSE LET fd == alt_fd_list[file]
          IN  \E r \in DriverResults :
                Call(IF fd.mode = forbidden THEN -EACCES
                     ELSE Result(fd.dev, callback, r, -EACCES))

ALT_READ(file)  == Transfer(file, "read", "O_WRONLY")
ALT_WRITE(file) == Transfer(file, "write", "O_RDONLY")

(* Calls that only ask the driver.                                         *)
Ask(file, callback, otherwise) ==
  /\ Leaves
  /\ IF file < 0 THEN Call(-EBADFD)
     ELSE \E r \in DriverResults : Call(Result(alt_fd_list[file].dev, callback, r, otherwise))

ALT_LSEEK(file)  == Ask(file, "lseek", -ENOTSUP)
ALT_FSTAT(file)  == Ask(file, "fstat", 0)

(* Without an fstat the device is a character device.                      *)
ALT_ISATTY(file) == /\ Leaves
                    /\ IF file < 0 THEN Call(0)
                       ELSE \E chr \in {0, 1} :
                              Call(Result(alt_fd_list[file].dev, "fstat", chr, 1))

(* open, fstat and close in one call; the error of open is forgotten.      *)
ALT_STAT(name) ==
  \E r, s \in DriverResults :
    LET o == OpenOutcome(name, "O_RDONLY", {}, r)
    IN  /\ Call(IF o.rc < 0 THEN -EBADFD ELSE Result(o.fds[o.rc].dev, "fstat", s, 0))
        /\ alt_fd_list' = IF o.rc < 0 THEN o.fds ELSE alt_release_fd(o.fds, o.rc)
        /\ alt_max_fd' = o.max /\ UNCHANGED held

ALT_FCNTL(file, cmd, flags) ==
  /\ UNCHANGED <<alt_max_fd, held>>
  /\ CASE file < 0        -> Call(-EBADFD) /\ UNCHANGED alt_fd_list
       [] file >= 0 /\ cmd = "F_GETFL" -> Call(0) /\ UNCHANGED alt_fd_list
       [] file >= 0 /\ cmd = "F_SETFL" ->
            /\ Call(0)
            /\ alt_fd_list' = [alt_fd_list EXCEPT ![file].flags = (@ \ OpenFlags) \union flags]
       [] OTHER           -> Call(-EINVAL) /\ UNCHANGED alt_fd_list

(* The loop of alt_fd_lock ends one short of alt_max_fd.                   *)
alt_fd_lock(fd) ==
  IF \E i \in 0 .. alt_max_fd - 1 : i # fd /\ alt_fd_list[i].dev = alt_fd_list[fd].dev
  THEN Call(-EACCES) /\ UNCHANGED alt_fd_list
  ELSE Call(0) /\ alt_fd_list' = [alt_fd_list EXCEPT ![fd].flags = @ \union {"ALT_FD_EXCL"}]

alt_fd_unlock(fd) ==
  Call(0) /\ alt_fd_list' = [alt_fd_list EXCEPT ![fd].flags = @ \ {"ALT_FD_EXCL"}]

ALT_IOCTL(file, req) ==
  IF file >= 0 /\ "ALT_FD_DEV" \in alt_fd_list[file].flags /\ req \in {"TIOCEXCL", "TIOCNXCL"}
  THEN /\ IF req = "TIOCEXCL" THEN alt_fd_lock(file) ELSE alt_fd_unlock(file)
       /\ UNCHANGED <<alt_max_fd, held>>
  ELSE Ask(file, "ioctl", -ENOTTY)

(* Calls this system has no support for.                                   *)
Unsupported(rc) == Call(rc) /\ Leaves

ALT_LINK   == Unsupported(-ENOSYS)
ALT_UNLINK == Unsupported(-ENOSYS)
ALT_RENAME == Unsupported(-ENOSYS)
ALT_EXECVE == Unsupported(-ENOSYS)
ALT_FORK   == Unsupported(-ENOSYS)
ALT_WAIT   == Unsupported(-ECHILD)
ALT_GETPID == Unsupported(0)

-----------------------------------------------------------------------------
(* The end of the program.                                                 *)

(* main returns: close(STDOUT_FILENO), then exit() runs the destructors,   *)
(* which may still make calls.                                             *)
Main_returns == /\ At("main", "exit") /\ UNCHANGED <<table, lists, held>>
                /\ \E r \in DriverResults :
                     ret' = Result(alt_fd_list[STDOUT_FILENO].dev, "close", r, 0)

ALT_EXIT == At("exit", "halted") /\ UNCHANGED <<table, lists, ret, held>>

(* A fatal signal to itself ends the program at once; one that is ignored  *)
(* by default does nothing; no other process exists.                       *)
ALT_KILL(pid, sig) ==
  /\ Running /\ UNCHANGED <<table, lists, held>>
  /\ step' = IF pid <= 0 /\ sig = "fatal" THEN "halted" ELSE step
  /\ ret' = IF pid > 0 THEN -ESRCH ELSE IF sig = "unknown" THEN -EINVAL ELSE 0

Halted == step = "halted" /\ UNCHANGED vars

-----------------------------------------------------------------------------
Next ==
  \/ alt_sys_init \/ alt_io_redirect \/ Main_returns \/ ALT_EXIT \/ Halted
  \/ ALT_LINK \/ ALT_UNLINK \/ ALT_RENAME \/ ALT_EXECVE \/ ALT_FORK \/ ALT_WAIT \/ ALT_GETPID
  \/ \E dev \in FileSystem : alt_fs_reg(dev)
  \/ \E name \in Path : ALT_STAT(name)
  \/ \E name \in Path, mode \in Mode, flags \in SUBSET OpenFlags : ALT_OPEN(name, mode, flags)
  \/ \E file \in Usable \union {-1} :
       \/ ALT_CLOSE(file) \/ ALT_READ(file) \/ ALT_WRITE(file)
       \/ ALT_LSEEK(file) \/ ALT_FSTAT(file) \/ ALT_ISATTY(file)
       \/ \E cmd \in {"F_GETFL", "F_SETFL", "F_DUPFD"}, flags \in SUBSET OpenFlags :
            ALT_FCNTL(file, cmd, flags)
       \/ \E req \in {"TIOCEXCL", "TIOCNXCL", "TIOCGCONNECTED"} : ALT_IOCTL(file, req)
  \/ \E pid \in {0, 1}, sig \in {"null", "fatal", "ignored", "unknown"} : ALT_KILL(pid, sig)

Spec == Init /\ [][Next]_vars

-----------------------------------------------------------------------------
(* Every variable keeps its type; a standard stream always has a device.   *)
TypeOK == /\ alt_fd_list \in [Fd -> alt_fd]
          /\ alt_max_fd \in Int /\ alt_max_fd >= -1 /\ alt_max_fd < MaxFd
          /\ alt_dev_list \in Seq(Device) /\ alt_fs_list \in Seq(FileSystem)
          /\ step \in {"alt_sys_init", "stdout", "stdin", "stderr", "main", "exit", "halted"}
          /\ ret \in Int
          /\ held \subseteq Fd
          /\ \A i \in 0 .. STDERR_FILENO : alt_fd_list[i].dev # None

(* A descriptor above the standard streams is in use exactly while the     *)
(* program holds it: no failing open, no stat, no redirection and no       *)
(* failing close (alt_open.c:161, alt_close.c:88) leaves one behind or     *)
(* takes one away.                                                         *)
NoLeak == {i \in Fd : i > STDERR_FILENO /\ alt_fd_list[i].dev # None} = held

(* The loops over the table stop at alt_max_fd (alt_open.c:79): nothing in *)
(* use lies above it, and a free entry carries no flags that a later open  *)
(* or lock test could mistake for its own.                                 *)
MarkCovers == \A i \in Fd : /\ i > STDERR_FILENO /\ alt_fd_list[i].dev # None => i <= alt_max_fd
                            /\ alt_fd_list[i].dev = None => alt_fd_list[i] = FreeFd

SafeTable == TypeOK /\ NoLeak /\ MarkCovers

Owners(dev) == {i \in Fd : alt_fd_list[i].dev = dev /\ "ALT_FD_EXCL" \in alt_fd_list[i].flags}

OneOf(S)    == IF S = {} THEN None ELSE CHOOSE i \in S : TRUE
Owner(dev)  == OneOf(Owners(dev))

users == [i \in Fd |-> alt_fd_list[i].dev]
owner == [dev \in Device |-> Owner(dev)]

OF == INSTANCE OpenFiles WITH Handle <- Fd

(* The table behaves as the file layer promises: a descriptor keeps its    *)
(* device from open to close, nothing gets at an owned device, and a       *)
(* device never has two owners.                                            *)
ImplementsOpenFiles == OF!Spec

(* What alt_fd_lock.c:43-45 says: the lock is granted only while no other  *)
(* open descriptor refers to the device.                                   *)
LockIsExclusive ==
  [][\A i \in Fd : "ALT_FD_EXCL" \in alt_fd_list'[i].flags \ alt_fd_list[i].flags
       => \A j \in Fd \ {i} : alt_fd_list[j].dev # alt_fd_list[i].dev]_vars
=============================================================================
