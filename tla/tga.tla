-------------------------------- MODULE tga --------------------------------
(***************************************************************************)
(* image/codec/tga: images to TGA files and back.  An image is a sequence  *)
(* of rows of texels; a texel is a grey level, or <<red, green, blue,      *)
(* alpha>>.  A file is its header's fields, its colour table and its body, *)
(* a sequence of elements and, with run-length encoding, of the control    *)
(* bytes of packets.  Bytes are counted: "size" is what encode() reserves  *)
(* before it writes.                                                       *)
(***************************************************************************)
EXTENDS Integers, Sequences, FiniteSets, SequencesExt

CONSTANTS
    PacketLimit,            \* texels of a packet: 128, a power of two
    TableLimit,             \* entries of a colour table: 256
    SideLimit,              \* texels of a row, rows of an image: 65535
    Opaque                  \* the greatest channel: 255

HeaderBytes == 18
Nothing == [size |-> 0]
Ceiling(n) == (n + PacketLimit - 1) \div PacketLimit
LeastOf(a, b) == IF a < b THEN a ELSE b

----------------------------------------------------------------------------
(* The colour table: texels in the order of their words *)

WordOf(texel) == FoldRight(LAMBDA channel, word : word * (Opaque + 1) + channel, texel, 0)

RECURSIVE Halved(_, _, _, _)
Halved(table, texel, lower, upper) ==
    IF lower >= upper THEN [found |-> FALSE, index |-> lower]
    ELSE LET index == (lower + upper) \div 2
             check == table[index + 1]
         IN IF texel = check THEN [found |-> TRUE, index |-> index]
            ELSE IF WordOf(texel) < WordOf(check) THEN Halved(table, texel, lower, index)
            ELSE Halved(table, texel, index + 1, upper)
lookup(table, texel) == Halved(table, texel, 0, Len(table))

\* The table with one more texel, or nothing when it is full.
lookup_insert(table, texel) ==
    LET at == lookup(table, texel)
    IN IF at.found THEN {table}
       ELSE IF Len(table) >= TableLimit THEN {}
       ELSE {InsertAt(table, at.index + 1, texel)}

ForceAlpha(texel) == [texel EXCEPT ![4] = Opaque]

RECURSIVE Collected(_, _)
Collected(table, texels) ==
    IF texels = << >> THEN [whole |-> TRUE, table |-> table]
    ELSE LET more == lookup_insert(table, Head(texels))
         IN IF more = {} THEN [whole |-> FALSE, table |-> table]
            ELSE Collected(CHOOSE t \in more : TRUE, Tail(texels))

----------------------------------------------------------------------------
(* Runs and packets *)

SourceBytes(src) == CASE src \in {"AutoTrue32", "RGBA"} -> 4 [] src = "RGB" -> 3 [] OTHER -> 1

\* What get_run_length() compares: the alpha of three-byte elements is masked.
Compared(state, texel) == IF state.bytes = 3 THEN ForceAlpha(texel) ELSE texel

get_run_length(state, row, u) ==
    LET same == {n \in u + 1 .. Len(row) :
                    \A i \in u + 1 .. n : Compared(state, row[i]) = Compared(state, row[u + 1])}
    IN Cardinality(same)

Flush(run, u, length) == [run |-> run, u |-> u, length |-> length]

\* The loop of the size pass and of the body: the sequences of a row that are
\* flushed, a raw one before the place u, a run from u.
RECURSIVE FlushesFrom(_, _, _, _, _, _)
FlushesFrom(state, row, byteOptimise, u, raw, flushed) ==
    IF u >= Len(row) THEN flushed \o (IF raw # 0 THEN <<Flush(FALSE, Len(row), raw)>> ELSE << >>)
    ELSE LET run == get_run_length(state, row, u)
             single == run % PacketLimit = 1
             absorbed == single /\ raw % PacketLimit # 0
             start == IF absorbed THEN u + 1 ELSE u
             pending == IF absorbed THEN raw + 1 ELSE raw
             length == IF single THEN run - 1 ELSE run
         IN IF run = 1 THEN FlushesFrom(state, row, byteOptimise, u + 1, raw + 1, flushed)
            ELSE IF byteOptimise /\ run = 2 /\ (raw + 1) % PacketLimit > 1
              THEN FlushesFrom(state, row, byteOptimise, u + 2, raw + 2, flushed)
            ELSE FlushesFrom(state, row, byteOptimise, start + length, 0,
                             flushed \o (IF pending # 0 THEN <<Flush(FALSE, start, pending)>> ELSE << >>)
                                     \o <<Flush(TRUE, start, length)>>)
Flushes(state, row, byteOptimise) == FlushesFrom(state, row, byteOptimise, 0, 0, << >>)

\* Mutant: a run longer than a packet is counted as one element.
RowSize_unabsorbed(state, row, byteOptimise, bytes) ==
    FoldLeft(LAMBDA sum, f : sum + Ceiling(f.length) + (bytes * (IF f.run THEN 1 ELSE f.length)),
             0, Flushes(state, row, byteOptimise))

\* The size pass: a control byte for each packet, and the elements.
RowSize(state, row, byteOptimise, bytes) ==
    FoldLeft(LAMBDA sum, f : sum + Ceiling(f.length) + (bytes * (IF f.run THEN Ceiling(f.length) ELSE f.length)),
             0, Flushes(state, row, byteOptimise))
RleSize(state, image, byteOptimise, bytes) ==
    FoldLeft(LAMBDA sum, row : sum + RowSize(state, row, byteOptimise, bytes), 0, image)

Element(state, texel) ==
    CASE state.clut -> lookup(state.table, IF state.bytes = 3 THEN ForceAlpha(texel) ELSE texel).index
      [] ~ state.clut /\ state.src \in {"R", "G", "B", "A"} ->
           texel[CHOOSE c \in 1 .. 4 : <<"R", "G", "B", "A">>[c] = state.src]
      [] ~ state.clut /\ state.bytes = 3 -> SubSeq(texel, 1, 3)
      [] OTHER -> texel
write_raw(state, row, u, count) ==
    [i \in 1 .. count |-> [kind |-> "element", value |-> Element(state, row[u + i])]]

Control(kind, length) == [kind |-> kind, value |-> length - 1]

RECURSIVE flush_rle_raw(_, _, _, _), flush_rle_run(_, _, _, _)
flush_rle_raw(state, row, u, remaining) ==
    IF remaining = 0 THEN << >>
    ELSE LET length == LeastOf(remaining, PacketLimit)
         IN <<Control("raw", length)>> \o write_raw(state, row, u - remaining, length)
              \o flush_rle_raw(state, row, u, remaining - length)
flush_rle_run(state, row, u, remaining) ==
    IF remaining = 0 THEN << >>
    ELSE LET length == LeastOf(remaining, PacketLimit)
         IN <<Control("run", length)>> \o write_raw(state, row, u, 1)
              \o flush_rle_run(state, row, u, remaining - length)

RleRow(state, row, byteOptimise) ==
    FoldLeft(LAMBDA body, f : body \o (IF f.run THEN flush_rle_run(state, row, f.u, f.length)
                                                ELSE flush_rle_raw(state, row, f.u, f.length)),
             << >>, Flushes(state, row, byteOptimise))

----------------------------------------------------------------------------
(* encode() *)

\* The colour table, unless the texels are bytes or it may not be made.
Table(src, texels, allowed) ==
    IF ~ allowed \/ SourceBytes(src) = 1 THEN [whole |-> FALSE, table |-> << >>]
    ELSE Collected(<< >>, IF src = "RGB" THEN [i \in DOMAIN texels |-> ForceAlpha(texels[i])] ELSE texels)

\* What the passes after the first one know: alpha is dropped when no texel,
\* or no entry of a whole table, is translucent.
Passed(src, texels, collected) ==
    LET translucent == \E t \in Range(IF collected.whole THEN collected.table ELSE texels) : t[4] # Opaque
    IN [src |-> src, clut |-> collected.whole, table |-> collected.table,
        bytes |-> IF src = "AutoTrue32" /\ ~ translucent THEN 3 ELSE SourceBytes(src)]

EntryBytes(state) == IF state.bytes = 4 THEN 4 ELSE 3

\* The bytes of the table and the body with elements of "bytes" bytes.
Sizes(state, image, bytes, entries) ==
    [raw |-> Len(FlattenSeq(image)) * bytes + entries * EntryBytes(state),
     rle |-> RleSize(state, image, bytes = 1, bytes) + entries * EntryBytes(state)]
Least(sizes, allow_rle) == IF allow_rle THEN LeastOf(sizes.raw, sizes.rle) ELSE sizes.raw

\* The header, the table and the body of a file.
File(image, rows, state, sizes, allow_rle) ==
    LET rle == allow_rle /\ sizes.rle < sizes.raw
        bytes == IF state.clut THEN 1 ELSE state.bytes
    IN [size |-> HeaderBytes + Least(sizes, allow_rle),
        color_map_type |-> IF state.clut THEN 1 ELSE 0,
        image_type |-> (IF rle THEN 9 ELSE 1) + (IF state.clut THEN 0 ELSE IF bytes = 1 THEN 2 ELSE 1),
        first_entry |-> 0,
        color_map_entry_bits |-> IF state.clut THEN 8 * EntryBytes(state) ELSE 0,
        width |-> Len(image[1]), height |-> Len(image),
        pixel_depth_bits |-> 8 * bytes,
        attributes |-> IF bytes = 4 THEN 8 ELSE 0,
        right_to_left |-> FALSE, top_to_bottom |-> FALSE,
        clut |-> IF state.clut THEN [i \in DOMAIN state.table |-> SubSeq(state.table[i], 1, EntryBytes(state))]
                               ELSE << >>,
        body |-> FlattenSeq([v \in DOMAIN rows |-> IF rle THEN RleRow(state, rows[v], bytes = 1)
                                                          ELSE write_raw(state, rows[v], 0, Len(rows[v]))])]

\* The better of an indexed file and of a plain one.
Smaller(image, rows, state, indexed, plain, allow_rle) ==
    IF state.clut /\ Least(indexed, allow_rle) < Least(plain, allow_rle)
      THEN File(image, rows, state, indexed, allow_rle)
      ELSE File(image, rows, [state EXCEPT !.clut = FALSE], plain, allow_rle)

Compressed(image, options, state) ==
    Smaller(image, IF options.vflip THEN Reverse(image) ELSE image, state,
            Sizes(state, image, 1, Len(state.table)), Sizes(state, image, state.bytes, 0), options.allow_rle)

\* The views that are taken: neither side is too long for the header and, but
\* for bytes, the rows are of whole texels of four bytes ("aligned").
Encodable(image, src, aligned) ==
    /\ image # << >>
    /\ Len(image) <= SideLimit /\ Len(image[1]) <= SideLimit
    /\ src = "Gray" \/ aligned

\* The options are src, allow_clut, allow_rle and vflip; "memory" says whether
\* the buffer can be allocated.
encode(image, options, aligned, memory) ==
    LET texels == FlattenSeq(image)
    IN IF ~ Encodable(image, options.src, aligned) \/ ~ memory THEN Nothing
       ELSE Compressed(image, options,
                       Passed(options.src, texels, Table(options.src, texels, options.allow_clut)))

----------------------------------------------------------------------------
(* decode() *)

Accepted(file) ==
    LET bytes == file.pixel_depth_bits \div 8
        row == IF file.image_type \in 9 .. 11 THEN Ceiling(file.width) * (bytes + 1) ELSE file.width * bytes
    IN /\ file.width > 0 /\ file.height > 0
       /\ IF file.color_map_type = 1
            THEN /\ file.image_type \in {1, 9} /\ file.pixel_depth_bits = 8
                 /\ file.color_map_entry_bits \in {24, 32} /\ Len(file.clut) <= TableLimit
            ELSE /\ file.image_type \in {2, 3, 10, 11} /\ file.pixel_depth_bits \in {8, 24, 32}
       /\ file.size >= HeaderBytes + Len(file.clut) * (file.color_map_entry_bits \div 8) + row * file.height

\* The texel of an element; none for an index outside the table.
Texels(file, element) ==
    LET Whole(e) == IF Len(e) = 3 THEN Append(e, Opaque) ELSE e
    IN CASE file.color_map_type = 1 ->
              {Whole(file.clut[i - file.first_entry + 1]) :
                  i \in {element} \cap file.first_entry .. file.first_entry + Len(file.clut) - 1}
         [] file.color_map_type = 0 /\ file.pixel_depth_bits = 8 -> {element}
         [] OTHER -> {Whole(element)}

Cell(file, at) == IF at \in DOMAIN file.body THEN file.body[at] ELSE [kind |-> "beyond"]
Read(file, at) == IF Cell(file, at).kind = "element" THEN Texels(file, Cell(file, at).value) ELSE {}

\* The texels of a body of packets, which a row's end does not interrupt: "left"
\* is src_bytes, from which the element of a run is not taken.
RECURSIVE Unpacked(_, _, _, _, _, _, _)
Unpacked(file, at, left, raw, run, value, texels) ==
    LET bytes == file.pixel_depth_bits \div 8
        cell == Cell(file, at)
    IN CASE Len(texels) = file.width * file.height -> texels
         [] Len(texels) # file.width * file.height /\ raw > 0 ->
              IF Read(file, at) = {} THEN << >>
              ELSE LET texel == CHOOSE t \in Read(file, at) : TRUE
                   IN Unpacked(file, at + 1, left, raw - 1, run, texel, Append(texels, texel))
         [] Len(texels) # file.width * file.height /\ raw = 0 /\ run > 0 ->
              Unpacked(file, at, left, 0, run - 1, value, Append(texels, value))
         [] OTHER ->
              IF left <= bytes \/ cell.kind \notin {"raw", "run"} THEN << >>
              ELSE IF cell.kind = "run" THEN Unpacked(file, at + 1, left - 1, 1, cell.value, value, texels)
              ELSE IF left - 1 < (cell.value + 1) * bytes THEN << >>
              ELSE Unpacked(file, at + 1, left - 1 - (cell.value + 1) * bytes, cell.value + 1, 0, value, texels)

Plain(file) ==
    IF \E i \in 1 .. file.width * file.height : Read(file, i) = {} THEN << >>
    ELSE [i \in 1 .. file.width * file.height |-> CHOOSE t \in Read(file, i) : TRUE]

decode(file, vflip, memory) ==
    LET texels == IF file.image_type \in 9 .. 11
                    THEN Unpacked(file, 1,
                                  file.size - HeaderBytes - Len(file.clut) * (file.color_map_entry_bits \div 8),
                                  0, 0, 0, << >>)
                    ELSE Plain(file)
        Row(v) == SubSeq(texels, (v - 1) * file.width + 1, v * file.width)
        Across(row) == IF file.right_to_left THEN Reverse(row) ELSE row
        rows == IF texels = << >> THEN << >> ELSE [v \in 1 .. file.height |-> Across(Row(v))]
        true32 == IF file.color_map_type = 1 THEN file.color_map_entry_bits = 32
                                             ELSE file.pixel_depth_bits = 32 /\ file.attributes = 8
    IN IF file = Nothing \/ ~ Accepted(file) \/ ~ memory THEN [desc |-> "Gray", image |-> << >>]
       ELSE [desc |-> IF file.image_type \in {3, 11} THEN "Gray" ELSE IF true32 THEN "RGBA" ELSE "RGBX",
             image |-> IF file.top_to_bottom # vflip THEN Reverse(rows) ELSE rows]

----------------------------------------------------------------------------
(* What the codec promises *)

\* The image that decode() returns for what encode() made of an image.
Canonical(image, src) ==
    LET opaque == \A v \in DOMAIN image : \A u \in DOMAIN image[v] : image[v][u][4] = Opaque
        Channel(t) == t[CHOOSE c \in 1 .. 4 : <<"R", "G", "B", "A">>[c] = src]
        Each(Op(_)) == [v \in DOMAIN image |-> [u \in DOMAIN image[v] |-> Op(image[v][u])]]
    IN CASE src = "Gray" -> [desc |-> "Gray", image |-> image]
         [] src = "RGB" -> [desc |-> "RGBX", image |-> Each(ForceAlpha)]
         [] src = "RGBA" -> [desc |-> "RGBA", image |-> image]
         [] src = "AutoTrue32" -> [desc |-> IF opaque THEN "RGBX" ELSE "RGBA", image |-> image]
         [] OTHER -> [desc |-> "Gray", image |-> Each(Channel)]

Written(file) ==
    LET bytes == file.pixel_depth_bits \div 8
    IN HeaderBytes + Len(file.clut) * (file.color_map_entry_bits \div 8)
         + FoldLeft(LAMBDA sum, cell : sum + IF cell.kind = "element" THEN bytes ELSE 1, 0, file.body)

\* The ways to read a file that was stored with a flip and shows "there": the
\* same file stored from another corner, or with a table that begins at another
\* index; no file, and no memory for the image.
Readings(file, vflip, there) ==
    LET Mirrored == [there EXCEPT !.image = [v \in DOMAIN @ |-> Reverse(@[v])]]
        Turned == [there EXCEPT !.image = Reverse(@)]
        Moved(cell) == IF cell.kind = "element" THEN [cell EXCEPT !.value = @ + 1] ELSE cell
        Reading(f, flip, shown) == [file |-> f, vflip |-> flip, memory |-> TRUE, image |-> shown]
    IN {Reading(file, vflip, there.image), Reading(file, ~ vflip, Turned.image),
        Reading([file EXCEPT !.top_to_bottom = TRUE], ~ vflip, there.image),
        Reading([file EXCEPT !.right_to_left = TRUE], vflip, Mirrored.image),
        [Reading(file, vflip, << >>) EXCEPT !.memory = FALSE], Reading(Nothing, vflip, << >>)}
       \cup IF file.color_map_type = 0 THEN {}
            ELSE {Reading([file EXCEPT !.first_entry = 1], vflip, << >>),
                  Reading([file EXCEPT !.first_entry = 1, !.body = [i \in DOMAIN @ |-> Moved(@[i])]],
                          vflip, there.image)}

Returns(file, vflip, there) ==
    \A reading \in Readings(file, vflip, there) :
        \A is \in {decode(reading.file, reading.vflip, reading.memory)} :
            is.image = reading.image /\ (is.image # << >> => is.desc = there.desc)

\* The file has the size that was reserved for it, is not longer than the plain
\* one, and gives the image back whatever the options and the flips; without
\* memory, of an image too large and, but for bytes, of rows that are not of
\* whole texels there is no file, and no image.
RoundTrip(image, options) ==
    LET Tried(o) == IF o = "plain" THEN [options EXCEPT !.allow_clut = FALSE, !.allow_rle = FALSE] ELSE options
    IN \A files \in {[o \in {"asked", "plain", "failed", "unaligned"} |->
                          encode(image, Tried(o), o # "unaligned", o # "failed")]} :
        /\ files["failed"] = Nothing
        /\ files["unaligned"] = IF options.src = "Gray" THEN files["asked"] ELSE Nothing
        /\ IF Len(image) > SideLimit \/ Len(image[1]) > SideLimit
             THEN files["asked"] = Nothing
             ELSE /\ Written(files["asked"]) = files["asked"].size
                  /\ files["asked"].size <= files["plain"].size
                  /\ Returns(files["asked"], options.vflip, Canonical(image, options.src))
=============================================================================
