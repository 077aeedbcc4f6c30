# LSCL in TLA+

LSCL (Local Stuff Configuration Language) is a C++ library that turns a text
into a tree of scalars, lists, maps and links. A document may contain scripts:
text between acute accents that is run by an interpreter while the document is
built, and whose output, itself LSCL, takes the script's place in the tree. This
directory holds a formal model of the library (sources under `src/src`), the TLC
configurations that check it on small instances, and TLAPS proofs of the
properties that matter most. Paths below are relative to `src/src` unless they
say otherwise.

## 1. The system

| Component | State | Operations | Source |
|---|---|---|---|
| Builder | root, link tables, list of Executed records, join period and count | constructors, `build_tree`, `assign_includes`, `assign_links`, destructor | `cpp/nodebuilder.*` |
| Script processing | one thread per script; its Executed record (`in`, `out`, `done`, `e`) | `script_use` (starts it), `script_processor` | `flexbison/lscl_parser.yy`, `cpp/script.cpp` |
| Script execution | child process, three pipes, listener thread, a flag and a string on the caller's stack | `Script::execute`, `python_listener` | `cpp/script.*` |
| Parser | bison's stack of semantic values | the grammar's actions | `flexbison/lscl_parser.yy` |
| Lexer | flex's buffer | the token patterns | `flexbison/lscl_lexer.l` |
| Node tree | nodes, their children, `Link::linked`, `Attached::attached` | constructors, `at`, destructors | `cpp/node_internal.*` |
| Node | a pointer to a node | `operator[]`, `insert`, `remove`, `get` | `cpp/node.*` |
| Scalar text | flags of one loop over bytes | `process_scalar_plaintext`, `process_scalar_quotes_single`, `process_scalar_quotes_double`, `process_acute_text` | `cpp/nodebuilder.cpp` |
| Text conversions | none | UTF-8 coding, safe strings, replacement | `cpp/global.*` |

How they interact. A `Builder` parses on its own thread. Every script token makes
the parser append an Executed record to the Builder's list, put an empty
`Attached` node into the tree, and start a thread that holds a pointer to the
record. The thread calls `Script::execute`, which forks a child and starts a
second thread, the listener, that shares a flag and a string on `execute`'s
stack with it. The output is parsed by a nested `Builder`, on the script's
thread, and the tree is left in the record. When parsing has ended,
`assign_includes` polls the records' `done` flags without a lock, joins
finished threads, moves their trees to the `Attached` nodes, and after a fixed
number of sweeps cancels what is left. `assign_links` then points every link at
its node. The finished tree belongs to the Builder and is read and changed
through `Node` objects, which hold plain pointers.

What is hard, and what makes each part correct:

* *Builder and scripts*: three kinds of unsynchronised access (flag, result,
  record lifetime), an iterator that is advanced twice, cancellation without a
  join, exceptions while threads run. Correct means: every place in the tree
  is settled once, with the result of its own script, before the tree is handed
  out; building ends; nobody writes to a record that is gone.
* *Script execution*: three parties (caller, child, listener), a timeout, a
  signal, a bounded last read, cancellation almost anywhere. Correct means:
  the call ends; output is not lost; the frame outlives its users; the
  child is accounted for.
* *Node tree*: ownership by plain pointers in a tree with cross links. Correct
  means: links stand for the right node; following them ends; nothing is deleted
  twice, read after deletion, or forgotten.
* *Their composition*: a script's output may hold scripts, built by a Builder
  that lives on the script's thread and dies with it. Correct means: a thread that
  ends leaves no listener and no running child behind, a tree is settled to its
  depth when it is handed out, and the thread ends.
* *Scalar text*: four loops with interacting flags. Correct means: the value is
  what the text says, and exactly the malformed texts are refused.
* *Text conversions*: six forms that overlap in their tables. Correct means: what is
  written is read back, and damage stays where it is.

`PROJECT.json` lists the hazards one by one at the lines where they bite, with
the properties that cover them or the reason why none does.

## 2. The modules

| Module | What it is |
|---|---|
| `IncludeSlots` | abstract: what a Builder promises about the places that wait for script output |
| `BuilderIncludes` | one Builder and the threads of its scripts |
| `BuilderRefinement` | the refinement mapping from `BuilderIncludes` to `IncludeSlots` |
| `ScriptExecute` | one call of `Script::execute`: caller, child, listener |
| `BuilderSystem` | composes the two: a Builder, one script in full, and the Builder nested in it, each with its mapping to `IncludeSlots` |
| `NodeTree` | parser reductions, links and references, script output, the owner's interface, deletion |
| `ScalarText` | lexer patterns of scalars and the four `process_` functions |
| `Utf8Forms` | the bytes of a symbol, used by `Utf8` and by the codes of `ScalarText` |
| `Utf8` | writing and reading UTF-8, with a byte lost in between |
| `*_proofs` | the theorems about the module of that name; `NodeOwnership_proofs` builds on `NodeTree_proofs` |
| `MC*` | instances for TLC |

In every module an operation of the code is an action with the code's guards;
the comment above it names the function, and `map` in `PROJECT.json` gives the
lines. Definitions marked *slip* are plausible mistakes in the definition that
follows them. No action uses one; each property has one that it catches, which
shows that the property says something about the code.

### BuilderIncludes

`pc` is the place of the builder's thread in `build_tree`; `executed_list` the
records that are allocated; `it` the iterator of `assign_includes`, with `End`
for `end()`. Scripts are numbered in order of creation, so `Succ` is
`++iterator`; incrementing `end()` is undefined in the standard and yields
`begin()` in the circular lists of libstdc++ and libc++, which is what the model
does. `thr[s]` is the place of a script's thread: `run` stands for the whole of
`execute` and the nested build, after which `Produce` picks a tree or an
exception. The stores to `out` and `done` are separate steps in *either* order
(`todo` holds those not yet visible), since nothing orders them for the reading
thread. `Unwind` is a cancelled thread meeting a cancellation point. Exceptions
and the destructor empty `executed_list` while threads go on. One exception is left
out because it cannot be met: `assign_includes` throws when `pthread_join` fails
(`cpp/nodebuilder.cpp:516-519`), but a thread on the list was created (or parsing had
thrown), is joined once, since its record is erased, and is not the builder's own.

### ScriptExecute

`xpc`, `lpc` and `child` are the places of caller, listener and child. Output is
counted in units: `written`, in the pipe (`unread_out`, `unread_err`), collected
(`accum`). `LTop` to `LErr` are the listener's loop in the code's order: copy the
flag, poll, read stdout, read stderr, test the copy. `Cancel` is the calling
thread cancelled by its Builder; it strikes wherever `execute` meets a cancellation
point: a `close` behind the fork, when the child runs and no listener exists yet,
`waitpid`, `usleep`, `pthread_join`, and the writes of `printf`, the one after a failed
fork included. `fork`, `pthread_create` and `execvp` may fail, and `waitpid` too: it
returns -1 where SIGCHLD is ignored, which ends the loop with the status it began with,
and that passes for a normal exit (`WaitpidFails`, `WIFEXITED`).

After a cancellation the frame is gone, and with it the listener's arguments. From then on
the flag is anything, so are the descriptors it polls and reads (either pipe or something
else, `Descriptors`) and what `poll` reports; what it reads no longer reaches `accum`; a
`poll` without a timeout or a read of something that never has data may block it for
good (`LBlocks`), and each use of a pointer may end the process (`LCrashes`). What it may
overwrite in memory that is reused by others is not modelled.

### BuilderSystem

What `thr = "run"` hides is spelled out for the one script of an outer
`BuilderIncludes`: `X` is an instance of `ScriptExecute`, and `N` an instance of
`BuilderIncludes` over variables of its own, whose threads are those of the
nested scripts. The script's thread runs through `Execute` (steps of `X`),
`BuildNested` (steps of `N`'s builder), `ProduceTree` or `ProduceNothing` (the
two handlers of `script_processor`), `Store`, `DestroyNested` (`~Builder` at the
end of the block) and `ExitThread`. A cancellation unwinds it inside `execute`
(`UnwindExecute`, also between the fork and the start of the listener) or inside the nested constructor (`UnwindNested`, whose nested
records are freed under their threads). An exception nobody catches in `execute`,
or a listener that uses a dead frame, can end the process: nothing of it runs any more, but the child does.

### NodeTree

Nodes are numbers in order of allocation. The parser is its stack of semantic
values: each reduction pops its operands and pushes its node, so documents are
built bottom up as bison does. `links_`, `linked_nodes_` and `references_` are the
Builder's tables. `AttachOutput` is `assign_includes` putting the tree of a script
in its place, a leaf or a list here; scripts that failed or are late leave the
place empty. `AssignLinks` uses the tables and `dig`. The owner may hold any node
that `operator[]` can yield, directly or through links, follow links one hop per
step, insert a new or a held node, remove a child, and end the tree. `freed` holds
the deleted nodes; reading or deleting one again leads to `pc = "corrupt"`.
`misused` records that the owner aliased a node or removed one that a link from
outside points into; `dropped`, `outputs` and `orphans` record the nodes that got no
owner: operands of a sum, script output (an `Attached` does not delete what it
holds) and what a map refused. The scalars of keys and quoted link names, which the
parser allocates and forgets, are left out.

### ScalarText

One byte per step. `lex` is the lexer's place in the token's pattern and decides
which byte may come next; the flags are the functions' own. `Meaning` defines,
without flags, by the byte's place in the token, what each byte contributes: the
first of line break, indentation (blanks after an unescaped line break), within a
code (after an escaped `x` and before its semicolon), escaped (after an odd number
of backslashes) and mark (the backslash or quote that says how to take the others)
that fits it decides, and any other byte stands for itself. The properties compare the two.
Bytes are classes. A hexadecimal code is read by its digits (0, 2 and A, which spell
spaces, line breaks, letters and zero), `Number` is `strtoul`, and its semicolon appends the
bytes that `Utf8Forms` gives the symbol. Of those the model keeps what `is_spacer` and
the ends of letters tell apart (`ByteKind`), for a plain scalar's end is trimmed whether
its bytes were written or come from a code: `\x20;` disappears, `\xA0;` leaves its first
byte. A code has at most six digits (`MaxDigits`); `strtoul` and the cast behind it lose
digits from the ninth on. `back()` and `pop_back()` on an empty string are undefined: plaintext
that is trimmed to nothing ends with an empty value or as `pc = "broken"`.

### Utf8

`Write` is one turn of the loop of `uint32_to_utf8`; the other actions are
the branches of `utf8_to_uint32`, a byte at a time. Heads, limits and masks are
the code's, as arithmetic: a form of n bytes has a head mark and 5, 4, 3, 2 or 1
bits beside it. In between, `Lose` takes one byte away, as happens to a scalar whose
last letter is trimmed (`text_letter_cut`) and where script output is cut off
(`LossBound`). A sequence that is cut short is stored as far as it got, and the byte
that cut it is passed over. Symbols have up to 31 bits.

## 3. Runs

Runs that pass:

| Run | Instance | Shows |
|---|---|---|
| `builder` | 3 scripts, 3 sweeps (165 thousand states) | `TypeOK`, `AttachedIsResult`, `RecordOutlivesThread`, `SkipBound`, `JoinWaitsForExit`, `Refinement`, `BuilderAdvances`, `BuildTerminates` |
| `execute` | buffer 2, pipe 3, 2 checks, output and errors up to 4 (1.2 million) | `TypeOK`, `DeadFrameNeedsCancel`, `LossBound`, `ChildAccounted`, `ExecuteAdvances`, `ExecuteReturns`, `StderrDrains` |
| `system` | 1 script with 1 script in its output, 1 sweep, buffer, pipe, check and output 1, no errors (600 thousand) | `SystemTypeOK`, `NothingLeftBehind`, `NestedRecordOutlivesThread`, `TreeIsSettled`, `ThreadAdvances`, `ScriptThreadEnds`, `BuildersKeepPromise` |
| `tree` | 3 nodes, 2 edits, one name, two keys, three paths (301 thousand) | `TypeOK`, `FirstNameWins`, `CorruptionNeedsMisuse`, `FreedExactly`, `ResolveEnds` |
| `text` | plain and double-quoted tokens of up to 6 bytes, single-quoted and scripts of up to 7 (6.0 million) | `TypeOK`, `EscapesMean`, `QuotesMean`, `ThrowsForCodes` |
| `utf8` | up to 3 symbols from both ends of the six forms (262 thousand) | `TypeOK`, `RoundTrip`, `DamageIsLocal` |

What they show, in words. *builder*: a place that was joined holds what its own
thread produced; a thread writes into a freed record only after an exception or
after it was given up on; a finished script is passed over at most once per
predecessor on the list; to the tree the Builder is an `IncludeSlots`; only a thread
that has left its script is joined; every step of the builder leaves it less to do, and so building
ends though nothing makes a script end. *execute*: only a cancellation takes the
frame from under the listener; what the last read loses is what exceeded one buffer when the flag
was reset; a returning call has seen its child exit (or, where `waitpid` failed, left it when it had ended), or has sent it the signal for
cause; every step of the call leaves it less to do, so that it ends whatever the child does; a child blocked on stderr is set
going by a listener that is not in its last turn, whether or not it is told to stop, unless the frame goes. *system*: only a thread that was cancelled inside
`execute` leaves a listener, or a child nobody signalled, behind; a record of a
nested script is freed early only after the nested Builder gave up on the script, or if
no tree came of it; a tree that is handed out is settled to its depth; to its tree either Builder is an
`IncludeSlots`, the nested one too when its thread is unwound anywhere in the constructor; the script's
thread, or the listener it waits for, gets nearer its end with each step, and it ends. *tree*: a link stands for the node that got its name first; nothing is
read after deletion or deleted twice unless the owner aliased a node or cut off a
link's end; deletion leaves out exactly what nobody owns; access ends on every
chain of links that is not circular. *text*: the value is what the text means by
place, the bytes of codes and the trimmed end included, and an exception is thrown for a byte that has no place in a code and for
nothing else. *utf8*: an undamaged text is read back, and a lost byte costs its own symbol and
at most the next one.

Runs that find a disagreement between the code and what it says of itself:

| Run | Property | What happens |
|---|---|---|
| `builder_skips_finished` | `DoneScriptAttached` | two scripts are finished when the last sweep begins; the second is skipped by the double increment and cancelled |
| `builder_failed_script` | `FailedScriptThrows` | the exception stored for a failed script is never thrown |
| `execute_kills_reaped` | `KilledOnlyOnTimeout` | a child that died by a signal is reaped, then "timed out" and signalled |
| `system_cancelled` | `FrameOutlivesListener` | the outer Builder's sweeps run out while the script is in `execute`; the cancellation leaves the listener with a dead frame |
| `tree_link_cycle` | `ResolveReaches` | `{k: &a *a}` makes `operator[]` spin for ever |
| `text_letter_cut` | `LettersWhole` | a plain scalar that ends with U+00E0 or U+0420 loses its last byte |

One more disagreement needs no run to violate, since the meaning the properties compare
with is the code's. `standard/LSCL_standard.tex:226-227` (beside `src/src`) says of `<'...'>`
and `<"...">` that "all line breaks and spaces are saved". They are read with
`preserve_newline` 1, which keeps line breaks and skips the blanks that begin a line
(`cpp/nodebuilder.cpp:287` and `:344`); `IsIndent` does so too, and therefore `QuotesMean`
and `EscapesMean` hold. Only `<<'...'>>` and `<<"...">>` save everything. `PROJECT.json`
lists it as a finding of the run `text`.

More observations have no run of their own. When more than one buffer is in the
pipe as the child's end is noticed, the end of the output is lost; `LossBound` says how
much. `a + b` keeps `a` and drops `b` (`lscl_parser.yy:117` calls it a sum), and
the tree of a script is deleted by nobody; `FreedExactly` accounts for both. A code
whose semicolon is missing at the end of a text is lost without the exception of
`nodebuilder.cpp:409`; `ThrowsForCodes` says exactly which texts are refused. A
symbol behind a cut sequence disappears with it; `DamageIsLocal` says it is the only
one. The `copy` flag of `@` links is set and never read.

### Bounds and why they are enough

* Three scripts are what it takes for one to be skipped, one to be joined before
  it and one to wrap around to; three sweeps let a script be passed over twice and
  then joined or cancelled. The proofs hold for every number of both.
* A pipe of more than one buffer is the smallest in which the last read leaves something
  behind, and output or errors of more than a pipe make the child block. Two checks
  give a first, a last and a timeout. Again the proofs hold for every value.
* In `system` the question is who is where when somebody else ends, not how much
  is where, so each part is as small as it can be without losing a place: the pipe
  still fills, the check still times out, the nested script is still joined, given up on or left.
  What several scripts do to each other is the subject of `builder`, and longer
  output that of `execute`. The proofs lift every bound but the single outer script.
* Three nodes make a container with a link and its target, a list of two, a map
  of two, a link to itself, two links in a circle, two nodes of one name, a sum, and
  a script's place in a list with its output; two
  edits are an alias and a removal, or a removal and an access through what is left.
  A list or map of the text has up to two children (`MaxItems`), and insertion
  lets a list grow to three. The proofs hold for every number of
  nodes, edits, names, keys and paths.
* Tokens: a code of one digit takes four bytes, so that six hold an escape, a fold or a
  quote before or behind it, or a code of three digits: enough for a space (`\x20;`, `\xA;`), a
  zero, and symbols of two and three bytes that end in 0xA0 (`\xA0;`, `\x220;`, `\xA20;`) or not (`\xAA;`).
  Styles read only the bytes they tell apart.
* Symbols 0, 127, 128, 2047 and so on to 2^31 - 1 are both ends of every form; three of
  them put a symbol before and behind the damaged one. The round trip is proved for
  all symbols and lengths.

Deadlock checking is off in every run, since a built, thrown, returned or
destroyed system stops.

### Fairness

* `BuilderIncludes`: weak fairness of the builder's thread and of the last stores
  of a thread that has its result. Scripts may run for ever, nobody has to
  destroy a Builder, and `usleep` returns. `pthread_join` in `assign_includes` waits
  only for a thread whose flag is set, which has nothing but stores left to do
  (`JoinWaitsForExit`, proved).
* `ScriptExecute`: weak fairness of the two threads of the process. The child may
  hang, block or ignore the signal; `poll` has a timeout.
* `BuilderSystem`: weak fairness of the outer builder's thread, the script's thread, the
  listener, and the last stores of nested threads, as long as the process runs: all are
  threads the scheduler runs. Nothing makes the child or a nested script end.
* `NodeTree`: weak fairness of the loop that follows links, which runs on its
  caller's thread; only `ResolveEnds` and `ResolveReaches` use it.

## 4. Proofs

All theorems hold for every value of the constants, from the assumptions that
the modules name: `MaxScripts`, `timeout_join_count`, `BufSize`, `PipeCap`,
`n_polls`, `MaxOutput` and `MaxNodes` are positive, `MaxError`, `MaxEdits` and
`MaxSymbols` natural, `MaxItems` is in `1..MaxNodes`, keys are not numbers, `Paths` are
sequences of selectors, `Symbols` have up to 31 bits, `Styles`, `Preserves`, `Alphabet` and
`MaxLength` are of their types (codes of `ScalarText` have up to six digits), and in `BuilderSystem` the outer
document has one script.

| Theorem | Module | Property |
|---|---|---|
| `TypeCorrect` | `BuilderIncludes_proofs` | `TypeOK` |
| `AttachedCorrect` | `BuilderIncludes_proofs` | `AttachedIsResult` |
| `RecordsCorrect` | `BuilderIncludes_proofs` | `RecordOutlivesThread` |
| `SkipsBounded` | `BuilderIncludes_proofs` | `SkipBound` |
| `JoinsAreBrief` | `BuilderIncludes_proofs` | `JoinWaitsForExit` |
| `BuilderTerminates` | `BuilderIncludes_proofs` | `BuilderAdvances` |
| `BuilderImplementsSlots` | `BuilderRefinement_proofs` | `Refinement` |
| `TypeCorrect` | `ScriptExecute_proofs` | `TypeOK` |
| `LossBounded` | `ScriptExecute_proofs` | `LossBound` |
| `ChildrenAccounted` | `ScriptExecute_proofs` | `ChildAccounted` |
| `FrameSafe` | `ScriptExecute_proofs` | `DeadFrameNeedsCancel` |
| `ExecuteTerminates` | `ScriptExecute_proofs` | `ExecuteAdvances` |
| `SystemTyped` | `BuilderSystem_proofs` | `SystemTypeOK` |
| `NothingIsLeft` | `BuilderSystem_proofs` | `NothingLeftBehind` |
| `NestedRecordsCorrect` | `BuilderSystem_proofs` | `NestedRecordOutlivesThread` |
| `TreesSettled` | `BuilderSystem_proofs` | `TreeIsSettled` |
| `ThreadTerminates` | `BuilderSystem_proofs` | `ThreadAdvances` |
| `PromisesKept` | `BuilderSystem_proofs` | `BuildersKeepPromise` |
| `SystemIsComposed` | `BuilderSystem_proofs` | (the system implements `BuilderIncludes` and `ScriptExecute`) |
| `TypeCorrect` | `NodeTree_proofs` | `TypeOK` |
| `FirstNameCorrect` | `NodeTree_proofs` | `FirstNameWins` |
| `ResolveTerminates` | `NodeTree_proofs` | (`ResolveAdvances`, stated there) |
| `DeletionIsSafe` | `NodeOwnership_proofs` | `CorruptionNeedsMisuse` |
| `DeletionIsExact` | `NodeOwnership_proofs` | `FreedExactly` |
| `TypeCorrect` | `Utf8_proofs` | `TypeOK` |
| `RoundTripCorrect` | `Utf8_proofs` | `RoundTrip` |
| `DamageCorrect` | `Utf8_proofs` | `DamageIsLocal` |
| `TypeCorrect` | `ScalarText_proofs` | `TypeOK` |
| `ThrowsCorrect` | `ScalarText_proofs` | `ThrowsForCodes` |
| `EscapesCorrect` | `ScalarText_proofs` | `EscapesMean` |
| `QuotesCorrect` | `ScalarText_proofs` | `QuotesMean` |

*BuilderIncludes.* The inductive invariant has six parts. `IteratorInv` ties the
iterator to the list in each phase: an iterator that is looked at is `End` or in
the list. `ThreadInv` describes the life of a thread: which stores are left in
each phase, that the flag is set only when the store to it is done, that a thread with no stores left has its
result in the record. `CancelInv` says that in the cancelling loop every record before the
iterator has been cancelled, so that all have been when the loop ends; without it
`RecordOutlivesThread` is not inductive at the destructor. `SkipInv` is the heart
of `SkipBound`: during a sweep, a record whose flag was set when the sweep began
and that the iterator has passed has lost a predecessor in this sweep. The double
increment and the wrap-around are exactly where it is needed: the record after a
joined one is skipped *because* one before it left the list. `SkipBound` then
follows by counting predecessors. `BeforeRemoved` and `BeforeAdded` are the lemmas
about cardinalities, `LeastElement` and `SuccNext` those about the iterator.

*Refinement.* Steps of the sweep and of threads map to stutters, `Join` to
`Settle` with the result, `CancelOne` to `Settle` by giving up, `LinksAssigned`
to `Publish`, and exceptions to `Fail`. The invariant above supplies what `Publish`
needs: when links are assigned no place is pending.

*ScriptExecute.* The invariant follows the bytes (`written` is what was
collected plus what is in the pipe), relates the listener's copy of the flag to
the reset, and, for `LossBound`, compares what is in the pipe after the last read
with what was there at the reset: once the child has ended nothing is added. All this
holds while the frame does (`FrameKept`); of a listener in a dead frame only what the
types say, and that no output appears from nowhere. For
`FrameSafe` the caller leaves the frame under a listener through `Join`, when it has ended, or `Cancel`.

*BuilderSystem.* The invariants of the three components are not proved again: every
step of the system is a step or a stutter of each component (`ExecuteSame`,
`NestedSame`), so the lemmas of their own proofs, taken through instances, carry them
along. The one exception is `UnwindNested`, which frees the nested records from
outside. What is new is `Flow`: where one component is when another is where it is (the
nested Builder begins when `execute` has returned, a thread that stores has a
result or a caught exception, an unwound one came from `execute` or from the nested
constructor). Four properties follow from it and from the components' own. For
`PromisesKept` the steps of either Builder map to `IncludeSlots` as in
`BuilderRefinement_proofs`, taken through an instance for the nested one; `UnwindNested`, which
is no step of a Builder, maps to `Fail` (`UnwindFails`), since the constructor is not yet done
wherever it can be cancelled. `SystemIsComposed` makes good on the abstraction in `BuilderIncludes`: whatever is
proved there of threads in `run` holds with the whole of `execute` and a nested Builder
in its place.

*NodeTree.* Type correctness needs that nodes are numbered without gaps
(`Numbered`), that a list's indices stay the first numbers under insertion and
removal (`ErasedForm`, `PutForm`), and that the tables mention nodes that exist.
`Subtree` is a least closed set and `Dig` a recursive function on prefixes of a
path; that `Dig` stays in the document is proved by the least length at which it
would not.

*NodeOwnership.* Until the owner misuses the tree it is a `Forest`. `Single`: no two
places hold one node. `Ordered`: a node is older than its owner, or a scalar that was
inserted later, so ownership has no cycles. `Tops` and `LostTops`: what is on
the stack, the root, and what nobody will own are free of owners and distinct, so
their subtrees are disjoint (`Apart`) and deleting one deletes none of another. `Living`: nothing
that is left leads to what is deleted, by ownership or by link. `Covered`: every
node that is left is under the root, on the stack or lost; with `Ordered` one climbs
from any node to an owner that has none. `DeletionIsSafe` rests on the
others; `DeletionIsExact` is `Covered` when the tree ends.

*ScalarText.* Places of a text are operators on sequences (`Run`, `Esc`, `Margin`,
`Within`), with lemmas that say what one more byte does to them: nothing to the
places up to it (`PlacesSame`), and to the place behind it what `PlaceNext` says. `FlagInv` is the
point: while nothing was refused, `escaped`, `readhex` and `skiping_spaces` say of the
next byte exactly what its place says. `LexInv` ties the lexer to the flags: its `half`
is `escaped` in double quotes and `quote` in single ones, and no plain token
has a slash pending within a code; without it a quote within a code could not
be excluded, nor the exceptions at the end of quoted text. `CodeInv` is then the property for what
was read so far.

The value is the concatenation (`FlattenSeq`, a fold) of what the bytes mean. Of the
fold the proofs need one thing, that one more piece is appended (`FlattenAppend`).
The function it is defined by exists on every prefix (`FlatExists`) and two of them agree
where both are defined (`FlatValues`): if not, there would be a least place where that fails
(`Least`, `UpTo`), and there it does not. The invariant is then as one says it: `AccumInv`, the value
so far is the meaning of the bytes so far; `DigitsInv`, while a code is read `current_hex_value` holds
the digits of the code that the next place stands in (`DigitsNext` says what one more byte does to
those, `CharacterType` that what becomes of them are bytes); `QuotedInv`, the `quote` flag is set
after an odd run of quotes, and `skiping_spaces` in the margin. `PiecesNext` says
that a byte more leaves the meanings of the others alone, though `Meaning` looks
around. `TrimCuts` is the end of a plain scalar: cutting spacers off one at a time ends at
the cut that `WithoutTail` chooses, whatever put the bytes there.

*Utf8.* Lemmas on division give the bytes of a symbol (`HeadByte`, `AdditionByte`) and
their distinct ranges (`HeadsDiffer`). The invariant says that the bytes are
the texts' encodings end to end (`Placed`) and, if none got lost, that the reader
stands in the sequence of the symbol it is about to store with as many of its bits as
it has read (`InStep`); `Fits` bounds what an arbitrary, damaged text can make of
`current_symbol`.

For `DamageIsLocal` the invariant `DInv` follows the damage. `Remains` says where the
bytes behind the lost one are now. The lost byte belongs to one symbol (`Covered`), and with
respect to that symbol the reader is in one of five stages: `Before` the lost byte, in
step; within the symbol that was `Torn`, with a value that is already too small;
`Passing` over what is left of the symbol that is gone, which is the torn one's successor or, when a head was
lost, the symbol itself; `After` it, in step one symbol behind; or `Over`, when there
was no symbol behind the torn one. Each step keeps the stage or goes on to a later one
(`BeforeNext`, `TornNext`, `PassingNext`, `AfterNext`), whatever the forms of the
symbols. `Moved` records what has been read of the symbols in front of the gap and behind it. That
the torn symbol gets smaller is `Shorter`: a form is used only for symbols that the next
shorter one cannot hold.

*Termination.* The prover cannot treat liveness under fairness, but the half of it
that depends on the code can be stated as an action property: a measure that the
process in question decreases with each step and nobody increases. Weak
fairness of that process supplies the rest.
`BuilderAdvances` orders tuples by the first place they differ: the stages of `build_tree`, the
scripts yet to meet, the sweeps left, the length of the list, the records from the
iterator on. The double increment is one step of the last place. That a join
does not wait for a script is `JoinWaitsForExit`, whose invariant `FlagInv` adds to
`ThreadInv` what the flag says of a thread that is being joined. `ExecuteAdvances`
does the same for `execute`: its parts, the checks left, and, while the caller joins the
listener, what the listener has left to do; the child counts nowhere. The
listener's turn ends because the caller resets the flag before it joins (`CallerInv`).
`ThreadAdvances` puts both together: a stage of the script's thread outside
of `execute` and the nested Builder, or the measure of `execute`, that of the nested Builder, and the stores
and `~Builder` behind them, in this order. `ExecuteSame` and
`NestedSame` say whose step a step of the system is, so the components' own lemmas
(`AdvanceStep`, `OthersKeepLeft`) apply.
All places are natural numbers (by the `TypeOK`s), so none decreases for ever.
`ResolveAdvances` measures the chain that is left to follow. A circle is what the definition
of `Circular` finds after `MaxNodes` hops; the lemmas relate that to the chain as a least closed
set: a chain that comes back to its first link is circular (`BackIsCircular`), as is one that leads into a circle
(`CircularNext`), so that each hop of any other leaves a node behind for good.
No run lists it: TLC checks `ResolveEnds`, which says the same of the instance.

Model-checked only. Liveness under fairness, which is out of the prover's reach:
`BuildTerminates`, `ExecuteReturns`, `ScriptThreadEnds` and `ResolveEnds`, of
which the measures above are the proved half, and `StderrDrains`, of which nothing is
proved: it depends on the child, the listener and the caller taking turns. Every
safety and action property that a passing run checks is a theorem.

## 5. Not modelled

* Memory layout (the entry too many given to `poll`, `buffer[-1]` after a failed
  read), descriptor leaks and the process table.
* The two clocks. A Builder waits 10 s in all and a script 10 s from its start
  (`cpp/defines.hpp`); here the one is a number of sweeps and the other a number of
  checks, which interleave freely, so that whatever the clocks do is among the behaviours.
* Several outer scripts with the whole of `execute` each: TLC does not reach it, and
  scripts meet only in `assign_includes`, where `BuilderIncludes` has them.
* Hexadecimal codes of more than six digits, and what a dead frame's memory holds by the
  time others use it.
* The form of seven bytes in UTF-8: the code names 31 bits as the limit, and TLC's
  integers end there.
* Safe strings and `replace_in_text`: nothing in the library calls them.
* `Scalar::get<T>`: calls of `std::stoul` and its kin and a narrowing cast, no state.
* Exceptions' texts, the self tests, and generated code.

## 6. Plan

Done: 1. `BuilderIncludes`, `IncludeSlots` and their refinement; 2.
`ScriptExecute`; 3. `NodeTree`; 4. `ScalarText`; 5. `BuilderSystem`; 6. `Utf8`; proofs
for all six.

Left, for who continues:

1. A common clock for several scripts and their Builder: which of the two
   timeouts comes first decides which children survive.
2. A document with several scripts in full, beyond TLC's reach but not the prover's: its
   invariant is `SystemInv` for each script, and what is new is cancellation that
   strikes one while another is joined.
3. Safe strings: writing and reading back, once something uses them.
