# A verification project for bitsery

TLA+ modules that model the serialization library in `src/include/bitsery`, the
TLC configurations that check them on small instances, and proofs, for every
size, document and program, about the buffer and stream adapters, bit packing,
Growable, inheritance, pointer linking and memory resources.

Contents: [the system](#1-the-system) ·
[modules and how they follow the code](#2-modules) ·
[runs and bounds](#3-runs) · [findings](#4-findings) ·
[proofs](#5-proofs) · [what is not modelled](#6-what-is-not-modelled) ·
[plan](#7-plan)

## 1. The system

bitsery is a header-only, single-threaded C++ library. A `Serializer` or a
`Deserializer` (`serializer.h`, `deserializer.h`) walks over an object by calling
the program's `serialize` function, and every leaf becomes a call of an
*adapter*, which owns the bytes. *Extensions* (`ext/`) sit between the two: they
are called with the serializer, the object and a callback, may use a *context*
that lives as long as the serialization, and call the adapter themselves. The
format has no tags; writer and reader agree only because they make the same
calls in the same order.

| Part | State | Operations | What makes it correct |
|---|---|---|---|
| Input buffer adapter, `adapter/buffer.h` | `_currOffset`, `_endReadOffset`, `_bufferSize`, `_overflowOnReadEndPos`; an error is encoded in the offsets | `readBytes`, `readBuffer`, `currentReadPos`, `currentReadEndPos`, `error`, `isCompletedSuccessfully` | a read is all or nothing; no window past the buffer; the first error is final; success excludes every error that was raised |
| Output buffer adapter, `adapter/buffer.h`, with `traits/core/eastl_defaults.h` | offset, largest offset, cached iterator and size, the container | `writeBytes`, `writeBuffer`, `currentWritePos`, `writtenBytesCount`, growing the container | the cached members agree with the container; what was written stays; nothing written is cut off |
| Measuring adapter, `adapter/measure_size.h` | position, largest position | the same | reports what the buffer adapter writes |
| Stream adapters, `adapter/stream.h` | internal buffer, iterator into it, offset; error and the number it is compared with | write, flush, move; read, `error` | bytes arrive in order, none lost by a flush, a move or a large value, or kept back for ever by a program that flushes behind each object |
| Bit-packing wrappers, `details/adapter_bit_packing.h` | the scratch and the number of bits in it | `writeBits`, `readBits`, values, `align`, destruction, positions | a stream of bits; measured to the bit; padding is zero |
| Sizes and byte order, `details/adapter_common.h` | none | `writeSize`, `readSize`, `swap` | read back what was written on any two machines; limits hold |
| Growable, `ext/growable.h` | local variables over a callback: the start, the size, the enclosing limit | `serialize`, `deserialize` | versions that differ read their common fields; nested windows |
| Compact value, range, entropy; standard types; `ext/*.h` | none, or the program's containers | `serialize`, `deserialize` | round trip; no value that the declaration rules out |
| Pointer linking, `ext/utils/pointer_utils.h`, `ext/pointer.h`, `ext/eastl_smart_ptr.h` | the writer's map from addresses to ids; the reader's from ids to owner, waiting observers and shared state | `serialize`, `deserialize`, validity | the graph is rebuilt, every object once |
| Memory resources, `ext/utils/memory_resource.h`, in `pointer_utils.h` and `ext/eastl_smart_ptr.h` | the context's resource, the resource in each extension and in each shared pointer's deleter; the objects behind the reader's pointers | create, replace, release, propagate and restore | what is allocated is released once, to its resource and as its type; nothing is released in use |
| Polymorphic context, `ext/utils/polymorphism_utils.h` | map of pairs (base, derived), list of derived types of each base | registration, `clear`, `serialize`, `deserialize` | programs agree on what an index means |
| Inheritance, `ext/inheritance.h` | depth, outermost object, list of virtual bases | `beginBase`, `beginVirtualBase`, `end` | one copy of each virtual base of each object |

How the parts interact: wrappers and extensions hold *positions* of an adapter
while callbacks run and come back to them later; contexts carry ids and flags
from one call to another far away; the wrapper keeps bits back that the adapter
below does not know of. There are no threads, nothing is persisted, and nothing
is retried, so the hard behaviours are these:

- **state that is held over a callback** (the start of a session, the enclosing
  limit, the bits in the scratch, the shared state of an object in a cycle);
- **two sides that must stay in step** although each decides from its own state
  (what was processed, what is outermost, how many bits wait);
- **partial data**: a document that ends early or arrives changed, after which
  every call goes on with zeros until the program looks at `error()`;
- **encoded state** (an error in an offset, a flag in a counter, 0 for "no
  limit") and **cached state** (size and iterator of the container);
- **order**: of observers and owners, of registrations, of bits and aligned
  bytes, of a buffer and what goes past it.

`PROJECT.json` lists each hazard at its line, with the properties that would
show it going wrong.

## 2. Modules

Modules named `...Ops` and `Codecs`, `Composites` hold one component's functions
as operators on a record that has the component's members; other modules hold
variables and actions. A call of the library that runs a callback in the middle
is two actions, "up to the call of fnc" and "after it", and what the C++
function keeps in local variables meanwhile is on a stack. A call without a
callback is one action.

| Module | Models | Built from |
|---|---|---|
| `ReaderErrors` | the numbers of `ReaderError` | |
| `InputBufferOps`, `InputBuffer` | the input buffer adapter and a client that calls it in any order, with any positions | `ReaderErrors` |
| `ReadCursor` | abstract: a position, an optional limit, an explicit error; the position and the limit may pass each other, which is an error nobody raised | |
| `OutputBufferOps`, `OutputBuffer` | the output buffer adapter, the growth policy, the container's capacity and allocation, and the measuring adapter given the same calls | |
| `WriteFile` | abstract: a positioned file | |
| `Growable` | a writer of one version, a reader of another, sessions inside sessions, a document of which a part arrives | both `...BufferOps` |
| `BitPackingOps`, `BitPacking` | the three wrappers, byte order, Booleans, the wrapper's lifetime | both `...BufferOps` |
| `BitStream` | abstract: bits appended to a stream | |
| `Codecs`, `Composites`, `Documents` | sizes, compact values, ranges of integers and of floating-point numbers, entropy; containers, text in strings and in arrays, standard types, with and without bit packing; documents of such fields and of Growable sessions through the wrappers | `BitPackingOps` |
| `PointerLinking` | both contexts, every kind of pointer, objects that exist beforehand, cycles: which graph results | |
| `MemoryResources` | the reader again, over several documents into the same pointers: which objects are allocated and released, with what, and when | |
| `PolymorphicContext` | the registries of two programs and an index written by one and read by the other; clearing, and use of one context by both directions | |
| `Inheritance` | the contexts of both sides under any nesting of bases, virtual bases and members | |
| `StreamAdapters`, `OrderedLog` | the stream adapters, with and without a buffer, a stream that may be full, a program that flushes behind each object; abstract: a log that is kept in order | `ReaderErrors` |
| `InputBuffer_proofs`, `OutputBuffer_proofs`, `Growable_proofs`, `BitPacking_proofs`, `StreamAdapters_proofs`, `Inheritance_proofs`, `PointerLinking_proofs`, `MemoryResources_proofs` | theorems about the module they are named after | the module |
| `MC...` | constants that a `.cfg` cannot write; `MCAdapters` and `MCContexts` also put side by side what shares nothing, of which a behaviour uses one (`used`) | |

Representations worth knowing when code and model are compared:

- **Bytes of the input** are all different and not zero, so that a property can
  tell which bytes a read returned. Zero is what the code leaves behind when a
  read fails.
- **An error** of the input adapter is where the code has it, in the offsets
  (`_currOffset` above any buffer, `_endReadOffset` the error's number), and
  `GetError` decodes it. `ReadCursor` has it in a variable. The errors' numbers
  are those of the code, since the distance of position and limit is taken for
  one.
- **Words of bits** are sets of the positions of ones; a shift moves the set and
  a mask or a narrower type cuts it. The width of a byte is the constant `W`.
  What the code spells 0x80, 0x40 or 7 is spelled with `W`. The bytes of a
  buffer are numbers; `Byte` and `Bits` convert.
- **Byte order**: `InMemory` lays the bytes of a value out as a machine does,
  `Swapped` is `details::swap` where `ShouldSwap` holds. Values in the scratch
  do not go through either, as in the code.
- **The container's allocation** is a number that changes when the container
  moves; the cached iterator remembers the number it was taken from.
- **Pointers**: an object of the writer is a number, a slot is a pair (object,
  index), and the stream a sequence of ids and values. The rebuilt graph is
  compared with the original through the pairs of slots that correspond
  (`Corresponding`).
- **Lives**: in `MemoryResources` an object is a number that is never used
  again, with what it was allocated by, the deleter its control block captured
  and the list of the ways it was released. What is on the stream is chosen at
  each pointer, so no writer is needed. Shares are counted by looking at who
  holds one: the program's slots and the context's shared states.
- **Floating-point numbers** are integers that count the smallest steps, `Unit`
  of them to 1, with at most `Digits` significant bits. Every operation of
  `ext/value_range.h` is done exactly and then `Rounded`, as the hardware does.
- **A handler** in `PolymorphicContext` is the serializer's or deserializer's
  type it was instantiated with; that is all of it that can be wrong.
- **Types** in `PolymorphicContext` stand for themselves. A program's hash codes
  differ from another's and never leave it; what leaves it is an index.

A definition named `..._Bug` is the definition behind it with a plausible
mistake. Nothing uses it; each shows that a property notices that mistake
(`mutants` in `PROJECT.json`).

## 3. Runs

Safety needs no fairness: the library does what it is called for and returns.
One property is about something that must happen, `SoonerOrLater` in `adapters`:
what an adapter buffers reaches the stream. Nothing in the library sees to it;
the program does, by flushing behind each object as
`src/examples/file_stream.cpp` 67-73 does. The run therefore assumes weak
fairness of exactly two actions, `Return` (the program's `serialize` function
comes to its end) and `FlushReturned` (the program's next statement, the flush),
which a sequential program that does not stop takes. Nothing is assumed of the
reader, of moves, or of any other flush. Runs whose behaviours end say
`CHECK_DEADLOCK FALSE`: the program has done its last call.

| Run | What it shows | Bounds, and why they are enough |
|---|---|---|
| `adapters`, input buffer | For any client `InputBuffer` implements `ReadCursor`; reads are all or nothing, the first error is final, completion is honest. | 4 bytes, reads of 1 to 3, every position up to the end and two beyond: reads that fit, that straddle the limit or the end, and every relation between position, limit and size. The theorems cover every size. |
| `adapters`, output buffer | The adapter implements `WriteFile` through growth and moves of the container, and measures what it writes. | Offsets up to 6, blocks of 1 to 3 bytes, jumps behind and before the end, growth by 1 rounded to 2 with and without slack, so that every branch of the policy decides somewhere. The theorems cover every policy. |
| `adapters`, streams | Bytes reach the stream in order, whichever way they take, and from a full stream only the end is missing; a program that flushes behind each object keeps nothing back for ever; a concurrent reader gets the bytes in order. | Buffers of 3 (fixed), of 2 (resizable) and none, values of 1, 2 and 4 bytes, 5 bytes, streams with room for 3 or for all 5: the buffer is filled, passed by and emptied more than once, and the stream fills up in the middle of a buffer and of a value. The theorems cover every buffer, stream and mixture of values; `SoonerOrLater` is only checked here. |
| `growable_versions` | Every common field is read, absent ones are zeros, the reader is in step at every item and completes; a part of the document is noticed and never misread. | Two levels, three items each, values of one and two bytes, 14 bytes; every prefix arrives. Two levels and a sibling behind a session are what an enclosing limit and its restoration need. The theorems cover every nesting and every document below 256 bytes. |
| `bits_round_trip` | Fields are a stream of bits, measured to the bit, read back on a machine of the other byte order; cut or foreign bytes are noticed. | Bytes of two bits, a scratch of four, fields of 1, 3 and 5 bits and values of one and two bytes: shorter than, across one and across several byte boundaries; five calls. A scratch of twice the byte is the smallest the code may have. The theorems cover every width, byte order, field and sequence of calls. |
| `documents` | Fields of every kind, in and around Growable sessions at byte boundaries, read back whole (floating-point numbers within their precision); whatever arrives, no variable holds what its declaration rules out; a compact value that is accepted lost nothing. | 38 fields with values at the boundaries of their encodings, bytes of four bits, two to four calls; for up to three calls every prefix and every single changed byte. Floating-point ranges: -1 to 1 with a precision of 1/4, and 0 to 1 with every bit the type has, numbers of four significant bits, so that the ratio, the product and the sum are all rounded somewhere. |
| `documents_unaligned_sessions` | Finding 1. | As `documents`, four fields. |
| `documents_text` | Finding 3. | A text of one character in an array of three, one byte changed. |
| `pointers_graphs` | Graphs are rebuilt in every order of owners, sharers and observers, into empty and existing objects; both sides end in step and read no object twice, also where existing objects are shared; truncated graphs have null pointers instead of wrong ones. | Every graph over programs with one to three objects: a tree with observers and a reference, shared and weak pointers with cycles, the same of polymorphic objects, a mixture that is truncated, and programs whose existing objects are nested, in a circle or shared. Each property says which of these it is about: see below the table. |
| `pointers_back_reference` | Finding 4. | One object with a weak pointer, in one shared pointer. |
| `memory_resources` | Every object is allocated with the resource that `doc/design/pointers.md` names for it, released once, to the same resource and as the same type; nothing dangles or is lost; in programs without polymorphic weak pointers nothing is released in use. | Two documents into the same pointers, cut anywhere: the second finds whatever the first may leave, in every order of ids and types. Four programs: unique owners with a resource that propagates above one that does not (five objects), shared and weak pointers to polymorphic objects that own one or share others (three objects, enough for a chain that dies from its head), and weak pointers to objects of one type that have weak pointers themselves (two objects, which may refer to each other). The theorems cover every program for the allocation, and for the releases every program without polymorphic weak pointers. |
| `memory_weak_pointers` | Finding 5. | Polymorphic objects with a shared and a weak pointer each, two of them, in a weak pointer between two shared ones. |
| `memory_aliased_pointers` | Finding 2. | The second program, documents may part what existing pointers share. |
| `contexts`, inheritance | One copy of each virtual base of each object. | Three objects, three addresses, two virtual bases, five calls; members behind the bases, objects with different addresses. The theorems cover every number of each. |
| `contexts`, polymorphism | A registered hierarchy is complete, and its handlers are of the direction that uses them; programs that declare the same of a base in the same order agree on every index. | A diamond below an abstract class, a second hierarchy that extends it in two places, a single branch; three registrations on each side, `clear` and the other direction between them. |

The adapters of a run, and its contexts, share nothing, and a behaviour uses one
of them; what the others could do meanwhile changes nothing for it.

**Positions that pass each other.** The input adapter has no member for its
error: it reports as one the distance by which its position is past its end. A
client may set the position behind the limit, or the limit before the position,
and so finds an error that nothing raised, whose number may be that of no
enumerator, and reads zeros from there on. `Growable::deserialize` takes both from
the header it reads and does so on headers that no writer wrote. One of
*size* 0 to 3 puts the end before the position, which has the header behind it:
the error is 4 - *size* (`growable.h:66`), except that size 0 at offset 0 lifts
the limit instead. An inner session that claims to be longer than the outer one
leaves the position behind the end that is restored (`:70`, `:71`), and if that
position is the end of the buffer, `isCompletedSuccessfully` and an error hold
together. `InputBuffer` is about any client, this one included. `ReadCursor` has
an action for each way to pass (`Cross`, `SeekPastLimit`), `CompletionIsHonest`
excepts from "no error with success" just the errors that nobody raised, and
`ErrorIsEnumerator` says that no other number appears. `Growable` has documents
that a writer wrote, and prefixes of them: `WindowsNest` is about those.

**Which graphs the properties of `PointerLinking` are about.** Three conditions
are named in the module and stand in front of the properties that need them:

- `BackReferencesFit`: where pointers are polymorphic and objects exist
  beforehand, no owner, shared or weak pointer leads back to the object it is in.
  All five properties need it; finding 4 is why.
- `Unshared`: among the existing objects none is in two owning pointers.
  `GraphIsRebuilt` needs it; finding 2 is why. They may be nested, and hold
  stale observers, to any depth.
- `Flat`: each existing object is in one pointer of the root and has null
  pointers. `TruncatedGraphIsSafe` needs it, because pointers that were not reached
  keep what they had, which then is an object the writer knows nothing of. For
  the same reason an observer whose owner did not arrive keeps what it had.

`CutIdsAssumption` limits programs that get a part of the stream to 127 objects:
larger ids are written in two or four bytes, `readSize` reads them in pieces
(`details/adapter_common.h:66-88`), and where the stream ends between two, the
id that is read is that of another object (384 is read as 256). The adapter has
an error then, which is all that tells.

## 4. Findings

1. **Growable through bit packing** (`documents_unaligned_sessions`,
   `ext/growable.h:53`). The wrapper's position does not count the bits in the
   scratch. A session that opens or closes with bits there patches its header
   over them or returns in front of them. `documents` shows that sessions at byte
   boundaries are sound, `AlignsFirst` is that discipline.
2. **Aliased shared pointers** (`memory_aliased_pointers`,
   `ext/utils/pointer_utils.h:514`, and `:543` of the other overload). An object
   that is already in a pointer is read into, whether or not another id of this
   document was read into it before. Two existing pointers that share an object
   stay so although the document gives them two; what the first reading put into
   the object is replaced by the second, and an observer linked to it dangles. No
   error is raised.
3. **Text that fills its array** (`documents_text`, `deserializer.h:505`). The
   limit of a text in an array (`:182`) is the array's size and does not count
   the terminating zero, which the writer's assertion does (`serializer.h:484`). A
   length equal to the size, which no writer writes, is accepted, and the zero is
   written behind the array. `StaysAllowed` shows that nothing else is written
   there.
4. **Pointers back into a polymorphic object that exists**
   (`pointers_back_reference`, `ext/utils/pointer_utils.h:526`). The object that a
   shared pointer holds is saved to the shared state only when it has been read.
   A shared or weak pointer in it that leads back to it reads it again, where the
   writer wrote an id only, and the reader is out of step from there. The
   overload for other objects saves it first (`:545`).
5. **What only a polymorphic weak pointer keeps** (`memory_weak_pointers`, the same
   line). The object is read through a raw pointer
   (`ext/utils/polymorphism_utils.h:318`) and not saved meanwhile. Take the shared
   pointers s1 and s3 and the weak pointer a of a program, and objects that have a
   shared pointer *owner* and a weak pointer *weak*. The first document leaves s3
   to q, q.owner and a to p and p.weak to q. The second makes s1 null, reads p in
   place through a and in it, through p.weak, q; in q, *owner* is null. With that
   p loses its last share and is released in the middle of being read. A shared
   pointer that is read keeps its object itself, and a weak pointer that is not
   polymorphic has saved it by then: for these `InUseStays` is proved (section 5).

Smaller divergences that have no run of their own. Where a constant is named, a
run with that value shows it:

- **An address stands for an object** (`ext/inheritance.h:52`; `Reuses = TRUE`
  in `Inheritance`, `NoMissingCopy`). For a value that is read into one local
  variable again and again, as `ext/eastl_map.h:73` does, the second virtual
  base is left out.
- With members *between* bases that have bases themselves
  (`Interleaves = TRUE` in `Inheritance`), the outermost object changes and
  returns, and a virtual base is written twice; `CHANGELOG.md:291` promises one
  copy.
- **Floating-point ranges at the ends of the type**
  (`ext/value_range.h:150`, `:179`). With more bits than the type has digits,
  the greatest value is written as 0; with a precision that the range's size
  rounds away, it is read above the maximum, rejected, and replaced by the
  minimum. `documents` keeps to ranges that fit, `StaysAllowed` holds either way.
- `saveToSharedState` (`ext/utils/pointer_utils.h:527`) of a polymorphic weak
  pointer that is empty, because the index stood for no type, throws
  `bad_weak_ptr` where exceptions are enabled; the resource that an outer
  pointer propagated then stays in the context.
- The control block of shared ownership is allocated with the size of
  `SharedPtrSharedState` and given back with that of its base class
  (`ext/utils/pointer_utils.h`, `PointerSharedStateDeleter`). A resource that
  counts bytes notices; `MemoryResources` does not follow the contexts' memory.
- Pointers that share an object but are declared with different resources
  release it with that of the one that created it. The programs of the runs
  declare them alike; `doc/design/pointers.md` says nothing of it.
- A stream that is full takes less than it is given, and the adapter neither
  looks at the count nor reports it (`adapter/stream.h:316`); an adapter that is
  dropped without `flush` loses what waits in it.
- A context used for both directions without `clear` in between keeps the first
  direction's handlers (`ext/utils/polymorphism_utils.h:193`); the model's
  programs clear, `Cleared_Bug` shows what happens otherwise.
- `ext/compact_value.h:176` promises `DataOverflow`, `:158` raises
  `InvalidData`.
- An index equal to the number of a variant's alternatives passes the limit
  (`ext/eastl_variant.h:59`) and leaves the variant alone, without an error.

## 5. Proofs

TLAPS checks the proofs with its SMT, Zenon and PTL backends. They assume what
the `ASSUME`s of the modules state: sizes and positions are natural numbers,
reads and blocks are not empty, `Line` is not 0, a pointer that is not
polymorphic has one element type, that of its template, and what is said of a
module below.

**`InputBuffer_proofs`**, for every size of the buffer and all sets of read
sizes and positions. The inductive invariant `IInv` adds to the types that the
end of reading and the cached size lie in the buffer; `ReaderTypeOK` alone is not
inductive, and would let a read copy bytes the buffer does not have. From it
follow `TypeCorrect`, `WindowSafe`, `ErrorsAreFinal`, `ReadsAreAtomic`,
`ErrorsAreEnumerators`, `CompletionMeansCompletion` and `ImplementsTheCursor`,
all for **any** client: no position that it sets is ruled out, nor the order of
its calls. An adapter with an error is in one of two conditions, *dead*, with no
size, no end and an enumerator for an offset, or *passed*, with a position past
an end that was set, by less than the size of the buffer. Both last whatever is
called, which is what makes an error that is stored in the offset a lasting
one. The refinement is proved action by action: a read maps to one of four
abstract reads, by its relation to limit and end, and a change of position or of
limit to one that keeps them in order or passes.

**`OutputBuffer_proofs`**, for every container, resizable or not, every growth
policy of the form the traits have and every slack. `GrownSizeIsEnough` is the
lemma about the policy; `MaybeResizeSound`, `WriteBytesSound` and
`SetWritePosSound` say what each operator preserves; `IInv` combines freshness
of the cached members, the bounds of the offsets, agreement with the measuring
adapter and that touched offsets lie below the high-water mark. It gives
`TypeCorrect`, `CachesStayFresh`, `WrittenStaysInBuffer`, `MeasureIsExact`,
`WrittenIsMonotone` and `ImplementsTheFile`.

**`Growable_proofs`**, for values and sessions of any number and size, any
nesting, any two compatible versions and any part of the document that arrives;
documents are shorter than 256 bytes, since of a session's size the model has
the lowest byte. The first half is about the writer. `DocInv` says what the
document is while it is written: items form a tree, the writer's stack is a path
in it, what exists is what comes before that path, items lie side by side where
`Place` puts them, the bytes of the values are there, and the header of a
session that is closed tells where its last item ends. `WriteBytes` and the
jumps back to a header preserve it because no item reaches into another
(`Apart`). The second half is about the reader. It is either *healthy*, confined
by the limits of the sessions it is in (`Confined`) and standing where the
writer stood for the same item (`AtItem`), or *broken* for good, and then the
document was cut off. `InStep`, `WindowsNest`, `ReadsWhatWasWritten`,
`VersionsAreNoError`, `TruncationIsNoticed` and `TruncatedReadsAreSafe` all
follow from that one invariant: a reader that leaves a session early, or that
knows items the writer did not, comes back in step when it returns, because
where the session ends was never a matter of what it read.

**`BitPacking_proofs`**, for every width of a byte, every scratch of at least
two bytes, all byte orders of the data and the two machines, all fields and any
number of calls. The first half is about operators. A sequence of bytes is the
set of the positions of its ones (`Ones`), which determines it (`OnesDiffer`);
`Grows` says of a packer, whose stream of bits is the bytes written and the
scratch behind them (`All`, `Total`), that a call adds the bits of its value
there and nothing else; `Reads`, `Takes` and `Aligns` say of an unpacker that a
call moves its position over so many bits of the data and returns those, or
ends in an error if they are not all there. The rounds of `WriteBits` and
`ReadBits` are recursive functions over data whose size nothing bounds:
`Recursion` shows that such a loop has its states, and `Induction` what holds
after each round, both with a set in place of a predicate, from the least
counterexample. The second half is the invariant. The calls end at places `At`
of the writer's stream (`Places`), between which that stream says what each
was called with (`Says`). The reader, which makes the same calls, is where as
many of them end, having returned what its own bytes say there, or it is
*broken* for good, and that does not happen over all of the writer's bytes
(`Follows`). Neither side knows `At`; that both are at it is what keeps them in
step although the writer decides by its scratch and the reader by its own. From
it follow `TypeCorrect`, `MeasuredInStep`, `RoundTrip`, `TruncationIsNoticed`
and `AcceptsOnlyWritten`. `ImplementsStream` is proved for little-endian data:
of big-endian data, a value that is written aligned is swapped and one that is
not aligned is not, so that what the bits of a value are depends on where it is
(`Placed`). The reader knows, and all the other theorems hold there too.

**`StreamAdapters_proofs`**, for every buffer, stream, mixture of values and
every sequence of moves. The inductive invariant accounts for each byte: the
beginning of what was written is on the stream, cut where the stream is full,
the rest in the buffer of the variable that holds the adapter, which is the one
its iterator points into. It gives `TypeCorrect`, `ReadsInOrder` and
`ImplementsLog`; each action of the adapter maps to a write, a delivery or a
stutter of `OrderedLog`.

**`Inheritance_proofs`**, for any number of objects, addresses, bases and calls.
`TypeCorrect` holds for any program and includes that the depth the context
keeps is the number of calls in progress, so it never goes below 0. `DInv` is
for a program that serializes the members of an object behind its bases and
objects that addresses tell apart (`~Interleaves`, `~Reuses`; section 4 has what
happens otherwise). Its heart, `ListedOnce`, relates the list of virtual bases,
with what `BeginBase` would clear from it, to the number of copies of every
object that may still call the extensions; `ParentIsOutermost` is what makes the
clearing the right one. It gives `NoSecondCopy` and `NoMissingCopy`.

**`PointerLinking_proofs`**, for any number of objects, any kinds of pointers in
them and in the root, any graph with cycles of any kind, and any part of the
stream. Left out is what `Sound` rules out: existing objects that are nested in
others or shared (`Flat`), which are only model-checked (finding 2 is about the
shared ones), and owners, shared and weak pointers that lead back into
polymorphic existing objects (`BackReferencesFit`), where finding 4 shows
`NoDuplicateObjects` fail. What is proved of the properties, which have the
second condition themselves, is therefore `Flat` and the property; and of parts
of the stream, for ids of one byte (`CutIdsAssumption`).

An invariant over the state alone cannot do: the reader begins when the writer is
done, and which numbers are still to come depends on how they were written.
`LinksAlways` therefore speaks of a *history*
of the writer, its states after each step (`History`), which exists because
every state was reached. Each state of it satisfies `WriterInv`: the objects in
progress are nested without repetition, ids are unique and dense, an object is
written exactly if a pointer that holds it was passed. The reader is always in
step with one of these states or behind the end of what it got.

In step (`Sync`) means: the reader's objects in progress stand for the writer's
at the same slots; each object the writer has begun has a place in the reader's
heap, with its value; the reader's info of each id agrees with the writer's in
ownership, has no owner before the object is begun and no waiting observer after
it is finished; and every pointer that was passed is right or is an observer
that waits in the info of its target. That a step of the reader leads from one
state of the history to the next is proved for each action: the number the
reader is at is the one the writer wrote in the step that follows
(`PointerAhead`), and both sides decide alike whether the object follows it,
the writer by `isSharedProcessed`, the reader by its shared state (`KnownNeeded`,
`EnterNeeded`). For that the shared state must be set while an object is in
progress, and where it is not, for polymorphic objects that were in place, the
absence of pointers back must keep a pointer to the object from being met
(`NoneInProgress`).

Behind the end, where zeros are read, only the weaker `ReaderInv` holds: each of
the reader's objects stands for at most one of the writer's, pointers that were
passed are null or lead to what stands for the right object, pointers ahead hold
what they held, and infos lead only to what stands for their object.

From the invariant follow `ObjectsAreReadOnce`, `LinksStay` (a step keeps every
owner pointer that was set), `BothEndAlike`, `GraphsAreRebuilt` and
`CutGraphsAreSafe`. The last two are about all corresponding pointers, which a
recursive function collects in rounds; `CorrespondingWithin` reduces them to
corresponding slots of corresponding objects.

**`MemoryResources_proofs`**, for all programs and documents. `TypeInv` says
that every pointer, waiting observer, info and frame leads to an object or a
slot that exists, although objects are created, replaced and released in the
middle of reading: an assignment, a release and all that dies with it
(`AssignType`, `SweepType`, `BuryType`) never change the type of an object, nor
remove one. `ResourceInv` says that at every level of the stack the resource
that is in force, or that the level above will restore, is the one that
`doc/design/pointers.md` names for a pointer there. With these every step that
creates an object allocates it as documented: `AllocatedAsDocumented`.

`InUseStaysLive` is proved for the programs that `Disciplined` describes: their
documents do not part what existing pointers share (finding 2), and their weak
pointers are not polymorphic (finding 5, `WeakPointersArePlain`, which
`InUseStays` has for a condition). Everything else is open: any kinds of
pointers, any types, any graph left by the documents before, any document. Why
`InUseIsLive` is not inductive: what is in use may be held by a pointer that a
later step overwrites. Three things together rule it out. `Kept` says of the
heap that what unique, shared and weak pointers hold lives, that the object of
a unique pointer has no other owner and no control block, and the others have
one. `Nested` says of the call stack that each object in progress is in the
pointer before the one its holder reads next, so that no pointer that is
still to be read holds it. `Visited` says of everything this document has read
that it is held, by a unique pointer of something read, by the shared state, or
by the shared pointer that is being read. `DyingSpares` then shows of a release,
whose rounds are a recursive function over the heap, that it spares every set of
objects that hold each other up (`HeldUp`), and what was read is such a set at
the time of each release. `OwnersNeverDangle` is `Kept` at any time, also in the
middle of a document.

`ReleasedTheWayAllocated` is about how. The resource of an object that a unique
pointer owns is stored nowhere: whoever replaces it works the resource out again
from the declarations around the pointer. That is the one it was allocated with
if an object with pointers is read with the same resource in the context
whichever pointer leads to it, `DeclaredAlike`: there is an assignment of one
such resource to each type that can be shared under which all pointers agree.
(Types without pointers, and objects that only unique pointers own, may be read
with any number of them.) All programs of the runs are declared alike. The
invariant gives each object the resource that is in the context inside it, and
says that what a pointer holds has the one the pointer asks for (`Suits`), that
shared objects have that of their type (`Proper`), and that each object in
progress is being read with its own (`InForce`, from `ResourceInv`). When a
pointer comes to share an object that another one created, or created in an
earlier document, `SharedSuits` shows that it asks for the same.

`ReplacedIsReleased` says that nothing leaks. It is the converse of `InUseIsLive`
and rests on the other direction of the release: not that it takes too
much, but that it does not stop too early. `DyingCloses` shows that the
rounds, of which there are as many as objects, reach a set that nothing can be
added to, since each round before adds one; `SweepHolds` that after a release
every live object has an owner that lives or, if it is shared, is in a shared
state (`Possessed`, `Retained`), even if the object that was replaced was the
first of a chain. In between a pointer may be replaced, but never its last hold
on something without a release in the same step (`PossessedChanged`).

`NothingIsLeftBehind` says that nothing dangles. `OwnersNeverDangle` has that of
pointers that own or are weak; a raw pointer holds nothing, and what it leads to
must be held by others when the shared state is cleared. `RootedInv` gathers, as
the document is read, what is needed there. `Settled`: owners that were passed
own what was read to its end (`Led`), raw pointers lead to what the document
reached or wait for it, and of each id whose object is done, an owner as strong
as the info tells was passed and holds it (`Claims`). So if the whole document was
read and its context is valid, what it reached is held up without the shared
state and leads only to itself. `Ringless`: in every set of objects is one that
none of them owns, since an object is owned anew only by one that it does not
own, directly or through others; that is the invariant behind "owners form no cycles", which the
model asks of documents only at the shared object that is met again. What lives
besides what the document reached would have owners that live besides it as well
(`Possessed`, `Retained`), and so form such a set: there is nothing
(`ClearedIsSafe`), and no pointer of it can dangle. A raw pointer that a document
before left in an object that this one does not reach is therefore gone with its
object, not stale.

Only model-checked:

- Liveness (`SoonerOrLater`), which is out of the prover's reach under fairness.
- `Documents`: compact values, ranges and sessions through the wrappers. Each
  codec is a recursive function over its data and needs lemmas of its own, as
  `BitPacking_proofs` has for the rounds of the wrappers.
- `PolymorphicContext`: `Adds` goes down a hierarchy recursively, to a depth
  nothing bounds.
- `MemoryResources` of the programs that are not `Disciplined`, but for types
  and allocation.
- `PointerLinking` with existing objects that are nested or shared.
- The type invariants of the adapters are proved and no run repeats them.

## 6. What is not modelled

- **Memory of the contexts** (maps, lists, control blocks), and the casts between
  base and derived, which are the compiler's.
- **Containers that move the reader's pointers while observers wait** in
  `pointer_utils.h:155`: the models' pointers stay where they are. The library
  resizes a container before it reads its elements, so only the program could.
- **Disabled checks** (`CheckAdapterErrors`, `CheckDataErrors` = false): the
  models are of the default configuration.
- **Compile-time parts**: choice of overloads, traits, `Access`, contexts, brief
  syntax. They have no state.
- **Elements that are objects or have a lambda**, resizing of containers of
  types without a default constructor. They call what the modelled containers
  call.
- **The order of equal keys** in a multi-map: it is the container's, and EASTL is
  not part of the repository. The models compare bags.
- Undefined behaviour the code asserts against (positions above a fixed
  container, sizes of 2^30).

Tests, `EASTL` and the build are not part of the library's logic; of the
examples, `file_stream.cpp` is the program in `StreamAdapters`.

## 7. Plan

Done, in the order of importance: the two buffer adapters with proofs, Growable,
bit packing and byte order, codecs and documents with floating-point ranges and
text, pointer linking, memory resources, inheritance, stream adapters with
liveness, the polymorphic context.

Left for modelling: little that has state. Containers of objects in `Documents`,
configurations with disabled checks.

Next, proofs, each with the invariant it needs:

1. `PolymorphicContext`: every list has each class at most once and its members
   are the keys of the map.
