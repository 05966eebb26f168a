----------------------------- MODULE CBufferLayout -----------------------------
(***************************************************************************)
(* Where the fields of an added constant buffer lie: the layout a recipe's *)
(* fields get (BuildCBufferLayout), the struct type and the annotations    *)
(* the SM6 backend writes for it (BuildCBufferSchemaLayout,                *)
(* MaybeAnnotateCBufferType), and the load that a cbuffer_field emit turns *)
(* into (ResolveCBufferReferences).  Offsets and sizes are bytes.          *)
(***************************************************************************)
EXTENDS Integers, Sequences, SequencesExt, FiniteSetsExt

Unset == -1     \* a field without offset, or without default
Everywhere == 0 \* a default that is one number or bool

RowBytes == 16
ComponentBytes == 4

AlignUp(value, alignment) == ((value + alignment - 1) \div alignment) * alignment

(* Mutant: the last byte of the row does not count.                        *)
Mut_Straddles(offset, bytes) == (offset % RowBytes) + bytes > RowBytes + ComponentBytes

Straddles(offset, bytes) == (offset % RowBytes) + bytes > RowBytes

\* A field of the recipe is [name, type, width, offset, default]; `default' is the
\* length of its list.  `acc' is the layout so far.
PlaceField(acc, data) ==
  LET width == IF data.width = 0 THEN 1 ELSE data.width
      bytes == width * ComponentBytes
      offset == IF data.offset # Unset THEN data.offset
                ELSE IF Straddles(acc.cursor, bytes) THEN AlignUp(acc.cursor, RowBytes)
                ELSE acc.cursor
      refused ==
        \/ data.name = ""
        \/ \E f \in Range(acc.fields) : f.name = data.name
        \/ data.type \notin {"F32", "U32", "I32"}
        \/ width > 4
        \/ offset % ComponentBytes # 0
        \/ offset < acc.cursor
        \/ Straddles(offset, bytes)
        \/ data.default \notin {Unset, Everywhere, width}
  IN IF refused \/ ~acc.ok THEN [acc EXCEPT !.ok = FALSE]
     ELSE [ok |-> TRUE, cursor |-> offset + bytes,
           fields |-> Append(acc.fields, [name |-> data.name, type |-> data.type,
                                          width |-> width, offset |-> offset])]

PlaceFields(data) ==
  LET layout[n \in 0..Len(data)] ==
        IF n = 0 THEN [ok |-> TRUE, cursor |-> 0, fields |-> <<>>]
        ELSE LET before == layout[n - 1] IN PlaceField(before, data[n])
  IN layout[Len(data)]

\* `declared' is the size the recipe states, 0 without one.
BuildCBufferLayout(declared, data) ==
  LET placed == PlaceFields(data)
  IN [ok |-> placed.ok /\ declared \notin 1..(placed.cursor - 1),
      fields |-> placed.fields,
      size |-> IF declared # 0 THEN declared
               ELSE Max({RowBytes, AlignUp(placed.cursor, RowBytes)})]

FieldSize(f) == f.width * ComponentBytes

\* What AddCBuffer asks of a schema.
ValidateCBufferSchema(fields, size) ==
  /\ size # 0
  /\ \A k \in DOMAIN fields :
       /\ fields[k].width \in 1..4
       /\ fields[k].offset + FieldSize(fields[k]) <= size
       /\ k > 1 => fields[k - 1].offset <= fields[k].offset

Padding(bytes) ==
  [k \in 1..((bytes \div 4) + (bytes % 4)) |->
     [bytes |-> IF k <= bytes \div 4 THEN 4 ELSE 1, field |-> 0]]

\* Where the n-th field ends, and the layout begins: the fields of a layout do not overlap.
EndOf(fields, n) == IF n = 0 THEN 0 ELSE fields[n].offset + FieldSize(fields[n])

\* The elements of the struct type: a field by its number, and in front of it
\* padding, as field 0.
FieldElements(fields, n) ==
  Padding(fields[n].offset - EndOf(fields, n - 1))
    \o <<[bytes |-> FieldSize(fields[n]), field |-> n]>>

StructElements(fields) ==
  LET upto[n \in 0..Len(fields)] ==
        IF n = 0 THEN <<>> ELSE upto[n - 1] \o FieldElements(fields, n)
  IN upto[Len(fields)]

(* Mutant: no padding behind the last field.                               *)
Mut_BuildCBufferSchemaLayout(fields, size) == StructElements(fields)

BuildCBufferSchemaLayout(fields, size) ==
  StructElements(fields) \o Padding(size - EndOf(fields, Len(fields)))

\* MaybeAnnotateCBufferType: the offset each element of the struct is annotated with,
\* that of its field, or for padding the cursor behind the element before.
AnnotateCBufferType(fields, size) ==
  LET elements == BuildCBufferSchemaLayout(fields, size)
      annotated[k \in 1..Len(elements)] ==
        LET e == elements[k]
            cursor == IF k = 1 THEN 0
                      ELSE LET before == annotated[k - 1] IN before.offset + before.bytes
        IN [offset |-> IF e.field = 0 THEN cursor ELSE fields[e.field].offset,
            bytes |-> e.bytes, field |-> e.field]
  IN annotated

\* A cbuffer without fields is one array of DWORDs, annotated as the field Data.
AnnotateArray(size) == <<[offset |-> 0, bytes |-> AlignUp(size, ComponentBytes), field |-> 1]>>

\* What a struct type is made to for a cbuffer: its body, and the annotation of that.
CBufferType(fields, size) ==
  IF fields = <<>> THEN AnnotateArray(size) ELSE AnnotateCBufferType(fields, size)

\* The body of a type: what no annotation changes.
BodyOf(type) == [k \in DOMAIN type |-> type[k].bytes]

(* Mutant: a type that is there keeps its annotation.                       *)
Mut_Annotate(type, fields, size) == type

\* MaybeAnnotateCBufferType of a type that has its body: its elements are annotated in
\* order, whatever they are; the array only alone.
Annotate(type, fields, size) ==
  LET layout == CBufferType(fields, size)
  IN IF fields = <<>> /\ Len(type) # 1 THEN type
     ELSE [k \in DOMAIN type |->
             IF k \in DOMAIN layout THEN [layout[k] EXCEPT !.bytes = type[k].bytes] ELSE type[k]]

\* It annotates behind the last element.
AnnotatesBeyond(type, fields, size) ==
  fields # <<>> /\ Len(CBufferType(fields, size)) > Len(type)

\* ResolveCBufferReferences: the row to load and the component to extract.
FieldRow(f) == f.offset \div RowBytes
FieldComponent(f, component) == (f.offset % RowBytes) \div ComponentBytes + component
================================================================================
