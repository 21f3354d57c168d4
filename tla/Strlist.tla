------------------------------ MODULE Strlist ------------------------------
(***************************************************************************)
(* The string list of src/src/common/strings/strlist.c, in which           *)
(* dockerinit builds the argv and envp of the command: an array of         *)
(* capacity + 1 pointers of which the last is always NULL.  The operators  *)
(* are the functions of the C file; a failed allocation is not one of      *)
(* their results, for every caller treats it as fatal.  Capacities are     *)
(* unsigned ints that do not wrap: nothing near 2^32 strings is stored.    *)
(***************************************************************************)
EXTENDS Integers

CONSTANTS
    GROW_COUNT,  \* how much room a full list gains
    NULL         \* an empty element

ASSUME GrowAssumption == GROW_COUNT \in Nat \ {0}

strlist_alloc(capacity) ==
    [capacity |-> capacity, strings |-> [i \in 0..capacity |-> NULL]]

strlist_get(sl, i) == IF i >= sl.capacity THEN NULL ELSE sl.strings[i]

\* The strings are copied, and what follows them is NULL: the new room and the
\* new terminator.
strlist_grow_by(sl, n) ==
    [capacity |-> sl.capacity + n,
     strings |-> [i \in 0..(sl.capacity + n) |->
                     IF i < sl.capacity THEN sl.strings[i] ELSE NULL]]

strlist_set(sl, i, str) ==
    LET room == IF i < sl.capacity THEN sl
                ELSE strlist_grow_by(sl, (i - sl.capacity + 1) + GROW_COUNT)
    IN [room EXCEPT !.strings[i] = str]

\* The first element that is NULL; without one it is the first of the room
\* that the list gains.
strlist_first_empty(sl) ==
    CHOOSE i \in 0..sl.capacity :
        /\ strlist_get(sl, i) = NULL
        /\ \A j \in 0..(i - 1) : strlist_get(sl, j) # NULL

strlist_set_tail(sl, str) ==
    LET i == strlist_first_empty(sl)
        room == IF i < sl.capacity THEN sl ELSE strlist_grow_by(sl, GROW_COUNT)
    IN strlist_set(room, i, str)

strlist_contig_count(sl) == strlist_first_empty(sl)

-----------------------------------------------------------------------------

\* The list is what execve expects to find: it ends in a NULL.
Terminated(sl) ==
    /\ sl = [capacity |-> sl.capacity, strings |-> sl.strings]
    /\ sl.capacity \in Nat
    /\ DOMAIN sl.strings = 0..sl.capacity
    /\ sl.strings = [i \in 0..sl.capacity |-> sl.strings[i]]
    /\ sl.strings[sl.capacity] = NULL

\* The list has n strings and no hole before or between them.
Contiguous(sl, n) == \A i \in Nat : (strlist_get(sl, i) # NULL) <=> (i < n)

=============================================================================
