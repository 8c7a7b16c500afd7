--------------------------------- MODULE Rows ---------------------------------
(***************************************************************************)
(* Columns, rows and table schemes, and the bytes they are in the file     *)
(* (core/src/database/table, util/buffer/Buffer.c).  A string is the       *)
(* sequence of its bytes, without the 0 at its end; a float32 is the       *)
(* number its bits are, whose order is that of the floats that are not     *)
(* negative.                                                               *)
(***************************************************************************)
EXTENDS Integers, Sequences, SequencesExt

\* The number of a ColumnType.
TypeNumber == [INT32 |-> 1, FLOAT32 |-> 2, STRING |-> 3, BOOL |-> 4]
TypeOf(number) == CHOOSE type \in DOMAIN TypeNumber : TypeNumber[type] = number

\* No string: what reading one from a buffer that is too short gives.
NoString == <<-1>>

-----------------------------------------------------------------------------
(***************************************************************************)
(* Buffer: a read beyond the end gives 0, a write beyond it does nothing   *)
(***************************************************************************)
BufferNew(size) == [size |-> size, data |-> <<>>, rcur |-> 0]

Write(buffer, bytes) ==
    IF Len(buffer.data) + Len(bytes) > buffer.size THEN buffer
    ELSE [buffer EXCEPT !.data = @ \o bytes]

\* Little endian; of two bytes and more the last one has the sign.
Bytes(n, width) ==
    FoldLeft(LAMBDA r, i : [left |-> r.left \div 256, bytes |-> Append(r.bytes, r.left % 256)],
             [left |-> n, bytes |-> <<>>], [i \in 1 .. width |-> i]).bytes
Number(bytes) ==
    FoldRight(LAMBDA byte, n : n * 256 + byte, bytes,
              IF Len(bytes) > 1 /\ Last(bytes) > 127 THEN -1 ELSE 0)

BufferWriteString(buffer, string) == Write(buffer, Append(string, 0))

Read(buffer, width) ==
    IF buffer.rcur + width > buffer.size THEN [buffer |-> buffer, value |-> 0]
    ELSE [buffer |-> [buffer EXCEPT !.rcur = @ + width],
          value |-> Number(SubSeq(buffer.data, buffer.rcur + 1, buffer.rcur + width))]

\* Up to the next 0; one behind the end of the buffer is too far.
BufferReadString(buffer) ==
    LET ends == {i \in buffer.rcur + 1 .. Len(buffer.data) : buffer.data[i] = 0} IN
    IF ends = {} THEN [buffer |-> buffer, value |-> NoString]
    ELSE LET end == CHOOSE i \in ends : \A j \in ends : i <= j
         IN  [buffer |-> [buffer EXCEPT !.rcur = end],
              value |-> SubSeq(buffer.data, buffer.rcur + 1, end - 1)]

-----------------------------------------------------------------------------
(***************************************************************************)
(* Column and Row                                                          *)
(***************************************************************************)
ColumnSize(column) ==
    CASE column.type \in {"INT32", "FLOAT32"} -> 4
      [] column.type = "STRING" -> Len(column.value) + 1
      [] column.type = "BOOL" -> 1

RowSize(row) == FoldLeft(LAMBDA n, column : n + ColumnSize(column), 0, row)

RowSerialize(row) ==
    FoldLeft(LAMBDA buffer, column :
                CASE column.type \in {"INT32", "FLOAT32"} -> Write(buffer, Bytes(column.value, 4))
                  [] column.type = "STRING" -> BufferWriteString(buffer, column.value)
                  [] column.type = "BOOL" -> Write(buffer, Bytes(column.value, 1)),
             BufferNew(RowSize(row)), row)

\* By the types of the scheme, whatever types the row was written with.
row_deserialize(scheme, buffer) ==
    FoldLeft(LAMBDA r, col :
                LET read == CASE col.type \in {"INT32", "FLOAT32"} -> Read(r.buffer, 4)
                              [] col.type = "STRING" -> BufferReadString(r.buffer)
                              [] col.type = "BOOL" -> Read(r.buffer, 1)
                IN  [buffer |-> read.buffer,
                     row |-> Append(r.row, [type |-> col.type, value |-> read.value])],
             [buffer |-> buffer, row |-> <<>>], scheme.columns).row

\* Of one type, which every caller has checked.
ColumnEquals(first, second) == first.value = second.value

-----------------------------------------------------------------------------
(***************************************************************************)
(* table_scheme                                                            *)
(***************************************************************************)
table_scheme_size(scheme) ==
    FoldLeft(LAMBDA n, col : n + (Len(col.name) + 1) + 4,
             8 + (Len(scheme.name) + 1) + 4, scheme.columns)

table_scheme_serialize(scheme) ==
    FoldLeft(LAMBDA buffer, col :
                BufferWriteString(Write(buffer, Bytes(TypeNumber[col.type], 4)), col.name),
             Write(BufferWriteString(Write(BufferNew(table_scheme_size(scheme)),
                                           Bytes(scheme.pool_offset, 8)),
                                     scheme.name),
                   Bytes(Len(scheme.columns), 4)),
             scheme.columns)

read_columns(buffer, size) ==
    FoldLeft(LAMBDA r, i :
                LET type == Read(r.buffer, 4)
                    name == BufferReadString(type.buffer)
                IN  [buffer |-> name.buffer,
                     columns |-> Append(r.columns,
                        [type |-> TypeOf(type.value), name |-> name.value])],
             [buffer |-> buffer, columns |-> <<>>], [i \in 1 .. size |-> i]).columns

table_scheme_deserialize(buffer) ==
    LET offset == Read(buffer, 8)
        name == BufferReadString(offset.buffer)
        size == Read(name.buffer, 4)
    IN  [pool_offset |-> offset.value, name |-> name.value,
         columns |-> read_columns(size.buffer, size.value)]
===============================================================================
