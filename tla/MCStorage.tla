----------------------------- MODULE MCStorage -----------------------------
(***************************************************************************)
(* The buffers, vectors and string tables over small stores.  A store may  *)
(* become what any of its operations leaves, refused or not, with memory   *)
(* or without; the properties apply every operation with every argument    *)
(* to every store that can be reached.  With them, for its objects, the    *)
(* ring of owners, whose two sides take turns at every step: it has its    *)
(* own variables and its own property, OwnedOnce.                          *)
(***************************************************************************)
EXTENDS TOwning, SequencesExt

CONSTANTS
    FifoLimit, VectorLimit,     \* elements of a store
    Elements,                   \* values of an element
    Words,                      \* strings, as lists of bytes
    Blocks                      \* of memory an operation on strings may get

\* Strings of which some begin others, with a zero among their bytes.
MCWords == {<< >>, <<1>>, <<1, 0>>}

VARIABLES
    holder,                     \* the store's class, or "none"
    store

Fifo == INSTANCE TPodFifo WITH Limit <- FifoLimit, MinCapacity <- 2
Vector == INSTANCE TPodVector WITH Limit <- VectorLimit, MinCapacity <- 2
Rect == INSTANCE CByteRectBuffer WITH Limit <- 20, MinCapacity <- 1
Table == INSTANCE CStableStrings WITH Limit <- 40, MinCapacity <- 4
storage_vars == <<holder, store, owning_vars>>

StorageIdle == holder = "none" /\ store = << >> /\ OwningInit
StorageInit ==
    /\ OwningInit
    /\ \/ holder = "fifo" /\ store = Fifo!NoFifo
       \/ holder = "vector" /\ store = Vector!NoVector
       \/ holder = "rect" /\ store = Rect!NoRect
       \/ holder = "strings" /\ store = Table!NoStrings
       \/ holder = "owning" /\ store = << >>

StorageNext ==
    /\ UNCHANGED holder
    /\ holder # "owning" => UNCHANGED owning_vars
    /\ \/ holder = "fifo" /\ store' \in Fifo!Steps(store, SeqOf(Elements, FifoLimit))
       \/ holder = "vector" /\ store' \in Vector!Steps(store, SeqOf(Elements, VectorLimit - 2))
       \/ holder = "rect" /\ store' \in Rect!Steps(store)
       \/ holder = "strings" /\ store' \in Table!Steps(store, Words, Blocks)
       \/ holder = "owning" /\ OwningNext /\ UNCHANGED store

----------------------------------------------------------------------------
(* Properties *)

(***************************************************************************)
(* Whatever was done to it before, a FIFO, a vector or a rectangle keeps   *)
(* the list or the image it holds through every operation, in order, as    *)
(* the operation says: across wraps, growth, shrinking, insertion and      *)
(* packing onto itself; and a request that is refused, or that gets no     *)
(* memory, changes nothing.  PacksInPlace and swap_insert()'s condition    *)
(* name the requests that the code does not get right.                     *)
(*                                                                         *)
(* A string has one id for as long as the table exists, and the id one     *)
(* string: through appends at any place of the order, sorting, shrinking   *)
(* and memory that runs out between any two of the five vectors.  Ranks    *)
(* are the lexical order, find_id() finds what is there, the table passes  *)
(* its own check_integrity(), and the memory ensure_free() got is enough   *)
(* for the append that follows.                                            *)
(***************************************************************************)
ContentsKept ==
    CASE holder = "fifo" -> Fifo!FifoAgrees(store, SeqOf(Elements, FifoLimit))
      [] holder = "vector" -> Vector!VectorAgrees(store, SeqOf(Elements, VectorLimit - 2))
      [] holder = "rect" -> Rect!RectAgrees(store)
      [] holder = "strings" -> Table!StringsAgree(store, Words, Blocks)
      [] OTHER -> TRUE

(***************************************************************************)
(* pack() "rewrites the current logical FIFO contents into packed physical *)
(* order" (TPodFifo.md:129): what is read afterwards is what was to be     *)
(* read before.                                                            *)
(***************************************************************************)
PackKeepsOrder == holder = "fifo" => Fifo!PackKeepsOrder(store)
=============================================================================
