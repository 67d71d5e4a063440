----------------------------- MODULE Descriptors -----------------------------
(***************************************************************************)
(* The kernel objects behind the integers imonitor passes around: the      *)
(* process's descriptor table, with the lowest free number given out first *)
(* as POSIX requires, and the interest list of its one epoll instance, as  *)
(* the wrappers of w_epoll.h drive it.  The module holds no state: every   *)
(* operator maps a table or an interest list to the next one.              *)
(*                                                                         *)
(* Descriptor numbers are compressed: 0 is standard input, which nothing   *)
(* but a stray close() touches, and 1 .. MaxFd are the numbers the kernel  *)
(* hands out after start-up (7 and up in a running server).  The           *)
(* descriptors between them (log file, epoll, inotify, listening socket)   *)
(* are opened once in main() and never closed, so they have no number      *)
(* here.                                                                   *)
(***************************************************************************)
EXTENDS Integers

CONSTANTS
  MaxFd,      \* highest descriptor number: RLIMIT_NOFILE - 1
  Clients,    \* the remote peers
  Conns,      \* heap blocks that hold a struct connection
  Files,      \* names of files that exist in the working directory
  None        \* "no connection", "no owner", "no file"

ASSUME DescriptorsAssumption ==
  /\ MaxFd \in Nat
  /\ None \notin Clients \cup Conns \cup Files

Fd == 0 .. MaxFd

(* What a descriptor can stand for.                                        *)
Free       == [kind |-> "free", of |-> None]
Stdin      == [kind |-> "std",  of |-> None]
Wtmp       == [kind |-> "wtmp", of |-> None]
Sock(k)    == [kind |-> "sock", of |-> k]
EventFd(c) == [kind |-> "evfd", of |-> c]
File(f)    == [kind |-> "file", of |-> f]

Objects ==
  [kind : {"free", "std", "wtmp"}, of : {None}]
    \cup [kind : {"sock"}, of : Clients]
    \cup [kind : {"evfd"}, of : Conns]
    \cup [kind : {"file"}, of : Files]

FreeFds(tab) == {f \in Fd : tab[f] = Free}

(* open, accept, eventfd: the lowest number not in use.                    *)
LowestFree(tab) == CHOOSE f \in FreeFds(tab) : \A g \in FreeFds(tab) : f <= g

-----------------------------------------------------------------------------
(* The interest list: for each descriptor number the events asked for and  *)
(* the pointer epoll_wait returns with them.                               *)
Absent    == [ev |-> {}, ptr |-> None]
Interests == [ev : SUBSET {"IN", "OUT"}, ptr : Conns \cup {None}]

(* close(2) on a set of numbers.  A number that is not open is EBADF, which *)
(* the code ignores.  The last close of an object takes it out of epoll.   *)
Close(tab, fds)       == [f \in Fd |-> IF f \in fds THEN Free ELSE tab[f]]
Forget(interest, fds) == [f \in Fd |-> IF f \in fds THEN Absent ELSE interest[f]]

(* EPOLL_CTL_MOD and EPOLL_CTL_DEL fail on a closed descriptor and on one  *)
(* that is not in the list (ENOENT).                                       *)
CanCtl(tab, interest, f) == tab[f] # Free /\ interest[f] # Absent

(* The names with As... are mutants: the call mistaken for another one.    *)
w_epoll_add_ptr_in_AsInOut(interest, f, c) ==
  [interest EXCEPT ![f] = [ev |-> {"IN", "OUT"}, ptr |-> c]]

w_epoll_add_ptr_in(interest, f, c) ==
  [interest EXCEPT ![f] = [ev |-> {"IN"}, ptr |-> c]]

(* EPOLLIN | EPOLLPRI: an eventfd never raises EPOLLPRI.                   *)
w_epoll_add_ptr_eventfd(interest, f, c) ==
  [interest EXCEPT ![f] = [ev |-> {"IN"}, ptr |-> c]]

w_epoll_update_ptr_in_AsInOut(interest, f, c) ==
  [interest EXCEPT ![f] = [ev |-> {"IN", "OUT"}, ptr |-> c]]

w_epoll_update_ptr_in(interest, f, c) ==
  [interest EXCEPT ![f] = [ev |-> {"IN"}, ptr |-> c]]

w_epoll_update_ptr_out_AsIn(interest, f, c) ==
  [interest EXCEPT ![f] = [ev |-> {"IN"}, ptr |-> c]]

w_epoll_update_ptr_out_AsInOut(interest, f, c) ==
  [interest EXCEPT ![f] = [ev |-> {"IN", "OUT"}, ptr |-> c]]

w_epoll_update_ptr_out(interest, f, c) ==
  [interest EXCEPT ![f] = [ev |-> {"OUT"}, ptr |-> c]]

w_epoll_update_ptr_inout(interest, f, c) ==
  [interest EXCEPT ![f] = [ev |-> {"IN", "OUT"}, ptr |-> c]]

(* The pointer argument is not looked at: the number alone decides.        *)
w_epoll_remove_ptr(interest, f) == [interest EXCEPT ![f] = Absent]

=============================================================================
