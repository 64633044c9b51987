--------------------------- MODULE CStableStrings ---------------------------
(***************************************************************************)
(* CStableStrings and CStringBuffer of StringBuffers.hpp.  A table of      *)
(* strings is a record of a byte buffer and four vectors, each a list with *)
(* its capacity; indices count from 0, where every vector has a sentinel.  *)
(* Operations that need memory are told how many blocks there are.         *)
(***************************************************************************)
EXTENDS MemoryTokens, FiniteSets, SequencesExt

\* m_string_buffer, m_string_refs, m_ref_index_to_id, m_id_to_ref_index and
\* m_sorted_ref_indices, in the order in which memory is reserved for them.
Vectors == <<"refs", "ref_to_id", "id_to_ref", "sorted">>
Fields == <<"buffer">> \o Vectors
NoTable == [list |-> << >>, capacity |-> 0]
NoStrings == [f \in Range(Fields) |-> NoTable]

At(t, i) == t.list[i + 1]
Count(s) == Len(s.refs.list)

----------------------------------------------------------------------------
(* CStringView and CStringBuffer *)

\* private_compare(): bytes first, lengths if one string begins the other.
relationship(a, b) ==
    LET differing == {i \in 1 .. Least(Len(a), Len(b)) : a[i] # b[i]}
        sign(m, n) == IF m = n THEN 0 ELSE IF m > n THEN 1 ELSE -1
    IN IF differing = {} THEN sign(Len(a), Len(b))
       ELSE LET i == CHOOSE i \in differing : \A j \in differing : i <= j IN sign(a[i], b[i])

is_valid_offset(buffer, offset) ==
    offset > 0 /\ offset < Len(buffer.list) /\ At(buffer, offset - 1) = 0

\* The bytes of a reference, none if its offset is not that of a string.
Bytes(buffer, ref) ==
    IF is_valid_offset(buffer, ref.offset) THEN Slice(buffer.list, ref.offset, ref.length) ELSE << >>

check_invariants(buffer) ==
    LET used == Len(buffer.list)
    IN /\ used <= buffer.capacity
       /\ used # 0 => used >= 2 /\ At(buffer, 0) = 0 /\ At(buffer, used - 1) = 0

\* The string between two zeros, at the end.
Packed(string) == <<0>> \o string \o <<0>>

----------------------------------------------------------------------------
(* Memory *)

\* Capacities raised, one after the other, for the minimums given, until there
\* is no memory for one of them.
Reserved(s, minimum, memory) ==
    LET Reserve(r, f) ==
          LET target == Greatest(Growth(minimum[f]), r.is[f].capacity)
              blocks == IF target = r.is[f].capacity THEN 0 ELSE 1
          IN IF ~r.ok \/ blocks > r.memory THEN [r EXCEPT !.ok = FALSE]
             ELSE [r EXCEPT !.is[f].capacity = target, !.memory = @ - blocks]
    IN FoldLeft(Reserve, [ok |-> TRUE, is |-> s, memory |-> memory], Fields)

ensure_free(s, length, memory) ==
    Reserved(s, [f \in Range(Fields) |->
                   IF f = "buffer" THEN Len(s.buffer.list) + length + 2 ELSE Count(s) + 1], memory)

\* A push_back() or an insert() which the capacity must have been reserved for.
Pushed(t, list) == [t EXCEPT !.list = list]
Fits(s) == \A f \in Range(Fields) : Len(s[f].list) <= s[f].capacity

\* CStringBuffer::reserve() does not ask for what there is already.
initialise(s, count, storage, memory) ==
    LET enough == storage <= s.buffer.capacity
        r == Reserved(s, [f \in Range(Fields) |-> IF f = "buffer" THEN IF enough THEN 0 ELSE storage
                                                  ELSE count + 1], memory)
        sentinel(f) == IF f = "refs" THEN [offset |-> 0, length |-> 0] ELSE 0
    IN IF count = 0 \/ storage = 0 THEN Refused(s)
       ELSE IF ~r.ok THEN Refused(NoStrings)
       ELSE Done([f \in Range(Fields) |->
                    IF f = "buffer" THEN r.is[f] ELSE Pushed(r.is[f], Append(r.is[f].list, sentinel(f)))])

\* Each of the five shrinks by itself; the vectors keep their blocks, and only
\* give up the capacity, so that no memory is asked for but the buffer's.
shrink_to_fit(s, memory) ==
    LET refused == memory = 0 /\ Len(s.buffer.list) \notin {0, s.buffer.capacity}
    IN [ok |-> ~refused,
        is |-> [f \in Range(Fields) |->
                  IF f = "buffer" /\ refused THEN s[f] ELSE [s[f] EXCEPT !.capacity = Len(s[f].list)]]]

----------------------------------------------------------------------------
(* Searches *)

is_valid_id(s, id) == id # 0 /\ id < Len(s.id_to_ref.list)

view(s, id) ==
    IF is_valid_id(s, id) THEN Bytes(s.buffer, At(s.refs, At(s.id_to_ref, id))) ELSE << >>

\* id_to_ref_index(), ref_index_to_id() and rank_to_ref_index()
Converted(t, i) == IF i # 0 /\ i < Len(t.list) THEN At(t, i) ELSE 0

ref_index_to_rank(s, ref) ==
    LET ranks == {r \in 1 .. Count(s) - 1 : At(s.sorted, r) = ref}
    IN IF ref = 0 \/ ref >= Count(s) \/ ranks = {} THEN 0
       ELSE IF At(s.sorted, ref) = ref THEN ref
       ELSE CHOOSE r \in ranks : \A q \in ranks : r <= q

\* private_find_ref_index(): the reference, or 0 and the rank to insert at.
RECURSIVE Search(_, _, _, _)
Search(s, string, lower, upper) ==
    LET pivot == (lower + upper) \div 2
        ref == At(s.sorted, pivot)
        order == relationship(string, Bytes(s.buffer, At(s.refs, ref)))
    IN IF lower >= upper THEN [ref |-> 0, insert_at |-> lower]
       ELSE IF order = 0 THEN [ref |-> ref, insert_at |-> 0]
       ELSE IF order < 0 THEN Search(s, string, lower, pivot)
       ELSE Search(s, string, pivot + 1, upper)

private_find_ref_index(s, string) == Search(s, string, 1, Len(s.sorted.list))

find_id(s, string) ==
    LET found == private_find_ref_index(s, string)
    IN IF Count(s) > 1 /\ found.ref # 0 THEN At(s.ref_to_id, found.ref) ELSE 0

----------------------------------------------------------------------------
(* Changes *)

\* The string, its reference and its entries, once there is memory for them.
Committed(s, string, insert_at) ==
    LET id == Count(s)
        offset == Len(s.buffer.list) + 1
    IN [buffer |-> Pushed(s.buffer, s.buffer.list \o Packed(string)),
        refs |-> Pushed(s.refs, Append(s.refs.list, [offset |-> offset, length |-> Len(string)])),
        ref_to_id |-> Pushed(s.ref_to_id, Append(s.ref_to_id.list, id)),
        id_to_ref |-> Pushed(s.id_to_ref, Append(s.id_to_ref.list, id)),
        sorted |-> Pushed(s.sorted, InsertAt(s.sorted.list, insert_at + 1, id))]

\* The id of the string, and the table it is in.
append(s, string, memory) ==
    LET found == private_find_ref_index(s, string)
        free == ensure_free(s, Len(string), memory)
        new == initialise(s, Growth(1), Growth(Len(string) + 2), memory)
    IN IF Count(s) = 0
       THEN IF new.ok THEN [id |-> 1, is |-> Committed(new.is, string, 1)]
            ELSE [id |-> 0, is |-> new.is]
       ELSE IF found.ref # 0 THEN [id |-> At(s.ref_to_id, found.ref), is |-> s]
       ELSE IF free.ok THEN [id |-> Count(s), is |-> Committed(free.is, string, found.insert_at)]
       ELSE [id |-> 0, is |-> free.is]

\* A table of its own, whose references are in the order of their ranks; it
\* replaces the old one when all of it could be built.
sort(s, memory) ==
    LET n == Count(s)
        Exact(list) == [list |-> list, capacity |-> n]
        Old(rank) == At(s.refs, At(s.sorted, rank))
        Add(b, rank) ==
          LET string == Bytes(s.buffer, Old(rank))
              r == Greatest(Growth(Len(b.is.list) + Len(string) + 2), b.is.capacity)
              blocks == IF r = b.is.capacity THEN 0 ELSE 1
          IN IF ~b.ok \/ blocks > b.memory THEN [b EXCEPT !.ok = FALSE]
             ELSE [ok |-> TRUE, memory |-> b.memory - blocks,
                   offsets |-> Append(b.offsets, Len(b.is.list) + 1),
                   is |-> [list |-> b.is.list \o Packed(string), capacity |-> r]]
        built == FoldLeft(Add,
                          [ok |-> memory >= Len(Fields), memory |-> memory - Len(Fields), offsets |-> << >>,
                           is |-> [list |-> << >>, capacity |-> Len(s.buffer.list)]],
                          [rank \in 1 .. n - 1 |-> rank])
        id(rank) == At(s.ref_to_id, At(s.sorted, rank))
        rankOf == [i \in 1 .. n - 1 |-> CHOOSE rank \in 1 .. n - 1 : id(rank) = i]
    IN IF n <= 2 THEN Done(s)
       ELSE IF ~built.ok THEN Refused(s)
       ELSE Done([buffer |-> built.is,
                  refs |-> Exact([i \in 1 .. n |->
                             IF i = 1 THEN At(s.refs, 0)
                             ELSE [offset |-> built.offsets[i - 1], length |-> Old(i - 1).length]]),
                  ref_to_id |-> Exact([i \in 1 .. n |-> IF i = 1 THEN 0 ELSE id(i - 1)]),
                  id_to_ref |-> Exact([i \in 1 .. n |-> IF i = 1 THEN 0 ELSE rankOf[i - 1]]),
                  sorted |-> Exact([i \in 1 .. n |-> i - 1])])

----------------------------------------------------------------------------
\* check_integrity()
check_integrity(s) ==
    LET indices == 1 .. Count(s) - 1
        string(rank) == Bytes(s.buffer, At(s.refs, At(s.sorted, rank)))
    IN /\ check_invariants(s.buffer)
       /\ \A f \in Range(Vectors) : s[f].capacity # 0 /\ Len(s[f].list) = Count(s)
       /\ Count(s) # 0 =>
            /\ At(s.refs, 0) = [offset |-> 0, length |-> 0]
            /\ \A f \in Range(Tail(Vectors)) : At(s[f], 0) = 0
            /\ \A i \in indices :
                  /\ At(s.ref_to_id, i) \in indices /\ At(s.id_to_ref, i) \in indices
                  /\ At(s.id_to_ref, At(s.ref_to_id, i)) = i
                  /\ At(s.ref_to_id, At(s.id_to_ref, i)) = i
                  /\ is_valid_offset(s.buffer, At(s.refs, i).offset)
                  /\ LET ref == At(s.refs, i)
                     IN /\ ref.length < Len(s.buffer.list) - ref.offset
                        /\ At(s.buffer, ref.offset + ref.length) = 0
            /\ {At(s.sorted, r) : r \in indices} = indices
            /\ \A r \in indices \ {1} : relationship(string(r - 1), string(r)) < 0

\* What a table can become.  initialise() is called once: it adds a second
\* sentinel to a table that has one.
Steps(s, strings, blocks) ==
    {NoStrings}
      \cup UNION {{append(s, t, m).is, ensure_free(s, Len(t), m).is} : t \in strings, m \in 0 .. blocks}
      \cup UNION {{sort(s, m).is, shrink_to_fit(s, m).is} : m \in 0 .. blocks}
      \cup {initialise(s, n, n, m).is : n \in IF Count(s) = 0 THEN 0 .. 3 ELSE {}, m \in 0 .. blocks}

\* The strings by their ids, and a table that was never used or was given up.
Strings(s) == [id \in 1 .. Count(s) - 1 |-> view(s, id)]
IsEmpty(s) == \A f \in Range(Vectors) : s[f].list = << >>

StringsAgree(s, strings, blocks) ==
    LET Same(t) == (IsEmpty(t) \/ check_integrity(t)) /\ Fits(t) /\ Strings(t) = Strings(s)
        ids == 1 .. Count(s) - 1
    IN /\ Same(s)
       /\ IsEmpty(s) => s.buffer.list = << >>
       /\ \A m \in 0 .. blocks :
             /\ Same(sort(s, m).is) /\ (sort(s, m).ok \/ sort(s, m).is = s)
             /\ sort(s, m).ok => \A rank \in ids : At(sort(s, m).is.sorted, rank) = rank
             /\ Same(shrink_to_fit(s, m).is)
             /\ \A string \in strings :
                   LET a == append(s, string, m)
                       known == {id \in ids : Strings(s)[id] = string}
                   IN /\ Same(ensure_free(s, Len(string), m).is)
                      /\ IF known # {} THEN known = {a.id} /\ a.is = s
                         ELSE IF a.id = 0 THEN Same(a.is)
                         ELSE /\ check_integrity(a.is) /\ Fits(a.is)
                              /\ a.id = Greatest(Count(s), 1)
                              /\ Strings(a.is) = Append(Strings(s), string)
                      /\ ensure_free(s, Len(string), m).ok /\ ~IsEmpty(s) =>
                            append(ensure_free(s, Len(string), m).is, string, 0).id # 0
                      /\ find_id(s, string) = IF known = {} THEN 0 ELSE CHOOSE id \in known : TRUE
       /\ \A id \in ids :
             LET ref == Converted(s.id_to_ref, id)
             IN /\ Converted(s.ref_to_id, ref) = id
                /\ Converted(s.sorted, ref_index_to_rank(s, ref)) = ref
                /\ ref_index_to_rank(s, ref) =
                     Cardinality({i \in ids : relationship(view(s, i), view(s, id)) <= 0})
=============================================================================
