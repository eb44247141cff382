# A TLA+ verification of squashfs debug shell

The program under `src/` is an interactive shell that reads a squashfs archive,
from a file or over NBD (with or without TLS), and lists, enters and prints
what is in it. It is a single-threaded C program that writes nothing: what is
hard in it is state that survives from one command to the next, errors in the
middle of an operation after which the shell goes on, and a network protocol
with timeouts. This directory holds TLA+ models of its parts, TLC
configurations that check them on small instances, and TLAPS proofs.

## 1. The system

```
main.c          commands: l s ls cd cat id inode ...            one at a time
  directory.c   pwd, directory reader, search          archive.c  inodes, files, ids
  cursor.c      metablock cursors and the metablock cache; fragment cursor
  metablock.c   the AVL tree in which the cache finds a block
  unionio.c     reader.readoff: fileio.c | nbdclient.c | nbdtlsclient.c
```

Every call goes downwards; there are no callbacks except `reader.readoff`, and
no concurrency inside the program. The NBD server is the only other actor.

**Metablock cache** (`cursor.c`, `struct archive.metablocks`). State: the
blocks, each with its key, contents and counter of the cursors on it; a doubly
linked list with `first` and `last`; the tree; `quotaleft`. Operations: init,
advance and deinit of a cursor; freeing everything. Hard: an unused block is
recycled when the quota is used up; each read can fail after the block was
taken out of the list and the tree; `advance` gives up its block before it has
the next. Correct when a cursor sees the metablock of its offset as long as it
has it, whatever the others do, the list and the tree hold the same blocks,
counters count cursors, and nothing is leaked or freed twice.

**AVL tree** (`metablock.c`). State: nodes with stored balances. Operations:
add, remove, find. Hard: removal with all its rotations, and the reports of
changed depth that callers rebalance on. Correct when it is ordered and
balanced and behaves as a set.

**Directory reader and pwd** (`directory.c`, with `main.c`, `archive.c` and
`print.c`). State: the pwd as a name and as a stack of inode pointers; one
reader (`a->directory`) shared by `s`, `ls`, `cd X` and `cat X`; one inode
(`a->inode`); one filename buffer; the last header and entry. Operations: the
commands. Hard: nothing of this is reset between commands. Correct when the
pwd is where the paths lead, and listings neither skip nor mix entries.

**File reading and fragments** (`archive.c` 179-305, `cursor.c` 145-242).
State: bytes left, offset on disk, the place in the list of block sizes, two
buffers that are shared with metablocks and fragments. Hard: sizes at multiples
of a block, sparse blocks, tails in a fragment, words that lie across two
metablocks, 32-bit counters. Correct when `cat` prints each byte of the file
once, in order.

**Id table** (`archive.c` 443-466). Pure arithmetic: which metablock and which
place in it an id has. Correct when it is the id the archive has at that index.

**NBD client** (`nbdclient.c`). State: the socket and what is under way on it.
Operations: connect and negotiate, read, disconnect, each with one deadline.
Hard: a read that times out is ignored by some commands, and its reply arrives
later. Correct when a read that succeeds returns the bytes it asked for.

**NBD client over TLS** (`nbdtlsclient.c`). The same with a session on top of
the socket. Operations: in addition STARTTLS and the handshake. Hard: which
bytes go through which of session and socket. Correct, in addition, when the
negotiation with a correct server succeeds, and when nothing that the
negotiation leaves unread is taken for the answer to a read.

**Readers and life of the program** (`unionio.c`, `fileio.c`, `main.c`). State:
the descriptor, the buffers, and the cursors that commands and what they call
have open. Hard: every routine returns early on errors, some callers end the
program on one and others go on. Correct when each cursor that is opened is
given back once, few are open at a time, and descriptor and memory are released
once on every path of `main`.

**Printing** (`print.c`), **decoding** (`fill.c`), **helpers** (`misc.c`,
headers, `gzip.c`): no state of their own, except that printing an entry loads
its inode and fetches two ids, and ignores whether that worked.

The hazards of the code, each at its line and with the properties that would
catch it, are in `PROJECT.json`.

## 2. What is modelled

| Module | Models | State and actions |
| --- | --- | --- |
| `MetablockCache` | `cursor.c` 38-143, `deinit_archive` | list pointer by pointer, tree as a set of blocks, counters, quota, cursors; one action per branch of `init_metablock_cursor`, so that a call takes several steps |
| `BlockCache` | what a user of cursors relies on | what each cursor sees, what is resident |
| `MetablockCacheProofs` | | theorems and proofs about the two |
| `AvlTree` | `metablock.c` | the tree as a value; one operator per function; add and remove as actions |
| `KeySet` | what the cache takes the tree for | a set of keys |
| `AvlProofs` | | theorems and proofs about the two |
| `Directory` | `directory.c`, the commands of `main.c` that use it | pwd, shared reader, last inode; commands and the turns of their loops as actions |
| `ArchiveRead` | `freadfile_archive` and what it calls, `fetch_id` | place in the file, on disk, in the list of words and in the fragment, both buffers, what was printed; one action per piece copied, metablock entered, block read or written |
| `NbdClient` | `nbdclient.c`, the end of `main.c` | the client's place and deadline, the socket, the two streams, a server; one action per message sent or piece received |
| `NbdTls` | `nbdtlsclient.c`, the end of `main.c` | extends `NbdClient` with the stage of TLS at both ends, and what GnuTLS has decrypted |
| `Shell` | `main.c`, and which cursors everything else opens and closes | the routine that runs and where it returns to, four cursors, counters, descriptor, buffers |
| `ShellProofs` | | theorems and proofs about it |
| `DirectoryProofs`, `PathProofs` | | about `Directory`; the second about where paths lead |
| `ArchiveProofs` | | about `ArchiveRead` |
| `NbdProofs` | | about `NbdClient` and `NbdTls` together |
| `NatSets` | | induction over the naturals, for the proofs about recursive functions |
| `MC...` | | instances for TLC |

The modules are connected by abstract specifications. `AvlTree` implements
`KeySet`, for any set of keys, and `MetablockCache` uses a set of blocks with
distinct keys (`TreeKeyed`) where the code calls the tree. `MetablockCache`
implements `BlockCache` for any number of cursors below its quota, and `Shell`,
which uses the cache, keeps to `BlockCache` with two (all three proved).

### MetablockCache

`next[b]` and `ppnext[b]` are `listvars.next` and `listvars.ppnext`; a pointer
to a link is named by the block whose `next` it is, or by `Head` for
`a->metablocks.first`. `data[b]` is the offset whose metablock has been
unpacked into the block; `thisblocksoffset[b]` is its key. The locals of
`init_metablock_cursor` are `who`, `fulloffset`, `cache`, `leftused`, and `pc`
is where it is: `lookup`, `scan` (looking for a block to recycle), `read`, and
`free` in `deinit_archive`. The two calls of `readoff` and `uncompress` are one
outcome, success (`Install`) or failure (`ReadFails`), since nothing changes
between them. A position within a block is not modelled. Only cleared cursors
are opened, as in the code.

After a failed read most commands end the program, but `ls` and `s` (which
ignore what `print_combined_dirent` returns) and `inode` (`print_inode`
ignores `print_common_inode`) go on, so the model goes on too.

Assumption: the quota exceeds the number of cursors open at one time. The
program grants 10, and `Shell` shows that it has at most two open at once.

### AvlTree

A function on `*root_inout` is an operator from the tree before to the tree
after and its return value. A tree is a value: `Nil`, or a record of the key, the
balance (a signed char) and the two subtrees, at most `MaxHeight` of them one above
the other. What recurses in the code is a recursive function over these trees. The
code has no bound on the height; the additions and removals of any run of the
program are a behaviour of the model with a large enough `MaxHeight`. The pieces of
`addnode` and `rmnode` that rebalance after the recursive call are operators of
their own (`LeftGrew`, `LeftShrank`, ...), because `extracthighest` and `rmnode`
have the same piece twice; `AddedLeft`, `TakenLeft`, ... put the new subtree in its
place and rebalance if its depth changed.

### Directory

An inode is its address, a pair (`blocksoffset`, `offsetinblock`), as in
`struct pointer_metablock`. A directory is a sequence of headers and entries
and the pointer to an entry's inode is made as the code makes it, of the last
header and the last entry read, wherever these come from. The count of bytes
left is replaced by the position in the sequence. A read that fails ends the
program at any time (`Exit`), except within `s` and `ls`, which go on. Paths
are sequences of components: `a/b` is `<<"a", "b">>`, `a//b` has an empty one,
and one `/` at the end adds nothing, as in `chdir_directory`, and a relative path may be empty. A path or name too
long for `pwdname` ends the program and falls under `Exit`. Two history
variables, `shown` and `goal`, record what was listed and where a path was to
lead; no action depends on them. Loading an inode from an address where the
archive has none ends the program: in the code what is read there need not make
sense, and is refused when its type is unknown or of the wrong kind.

### ArchiveRead

An archive is given by constants: files with the place of their words in the
inode table, the places and sizes of their blocks on disk, and their tails in
fragments, as `WellFormed` says, and no two blocks share a word or bytes on disk
unless these are the same (`DiskAssumption`; mksquashfs lets equal blocks of
different files share their bytes). A byte is named by where it comes from, so that
printing the right bytes in the right order is visible. `pc` is where
`freadfile_archive` is: `word` (within `readbytes_metablock_cursor`), `block`
and `write` (within `step_readfile`), `fragment` and `copy`. `word` is the
sequence of places that the bytes of the word were copied from; they make a
word only if they are its places (`Listed`). `Turn` is the test that begins each
turn of the loops of `freadbasicfileinode` and `freadextendedfileinode`.

Both buffers keep what they held. Unpacking a metablock goes through
`anyblock`, and whether it happens depends on the cache, so `LoadMetablock` is
a choice. Which metablock of a list of words is loaded when matters only at its
end: the cursor is advanced when the next byte is needed.

The loop that prints the tail calls nothing that moves the fragment cursor.
Since a tail lies within its fragment, it runs once, and
`advance_fragment_cursor` is never reached; neither has an action of its own.

`fetch_id` divides by `IdsDivisor`, and the table has `IdsPerMetablock` ids in
a metablock; these are 1024 and 2048. Two indices that are on different sides
of it are enough to tell them apart.

### NbdClient

A cell of a stream stands for bytes that are received in one piece: the two
halves of a reply header, the header and the body of an option reply, one unit
of data. `timeout_readn` and `timeout_writen` are `Receive` and `Send` with the
guard `left > 0`; their failures, at the deadline, at the end of the stream or
on a broken connection, are `GiveUp` and lead where the `error:` labels lead. A
request that is given up may have gone out in part (the cell `cut`); the server
cannot answer after that. `connecttoserver` has a deadline of its own and is one
step. `Killed` is SIGPIPE, which nothing in the program handles. After a failed
read the program ends, or goes on where its caller ignores the failure, as
described under MetablockCache. The contents of messages are kept as far as a
check in the code looks at them.

The server is external. It greets, answers the option with any number of
descriptions in any order and then with an acknowledgement or an error, answers
reads with the right data or an error, in the order they came, and may stop or
disconnect at any time. It sends nothing the protocol forbids. `lost` is a
history variable: a read has given up before its reply was complete.

### NbdTls

For a URL of `nbdtls` the program has this client from start to end in place of
the one of `NbdClient`: `TlsSpec`. `UnionSpec` has both, and a behaviour of it is
one of `Spec` or one of `TlsSpec`, by the choice that `init_unionio` makes at the
start (`stage` is `none` without TLS). `Connect`,
`ReadGreeting`, `Deinit` and what the two clients do with a piece once they have
it (`Judge`, `TakeHead`, `TakeData`, `SendRequest`, ...) are those of `NbdClient`;
what differs is where a piece comes from. `stage` says it: `clear`, `asked`
(STARTTLS), `handshake`, `session`, `socket` while `eatreplies` reads from the
socket, `invalid` after something that is no record. A cell that the server sends
after the handshake is a record or a part of one. `pending` cells have been
decrypted with the record that was taken last; `tls_timeout_readn` returns these
without a look at the clock or the socket. A record without data (a ticket) is
skipped; after `close_notify` (`ended`) the loop goes round until the deadline.
The handshake has its own timeout, and cannot be cut short by the call's deadline.

`eatreplies` reads a header from the session, looks at nothing of it
(`ReadSession`), reads a header from the socket into the same buffer, and goes by
that one (`ReadSocket`): its magic number, then its type; the text after it comes
from the socket as well (`ReadSocketName`). What is at the socket is a record,
which does not start with the magic number, or a reply in the clear, which passes
every test. A server that keeps the protocol sends none; `Cleartext` says which
ones this server does. One in the clear is at the socket at a time (`OneClear`, a
bound). A reply in the clear that is read as a record ends the session
(`BadRecord`), and every call after it fails (`InvalidSession`).

A negotiation that succeeds may leave replies in the session, and the first reads
find them before their answers. `TlsReadHead` refuses them, since a reply
to an option does not start with the magic number of an answer; the read fails,
and its own answer is still to come (`lost`). A text of a description that is read
in place of a header is taken to be as long as one.

GnuTLS and the server's side are external. `owed` is a history variable: the
acknowledgement has been read, and the negotiation has not returned.

### Shell

`pc` is the routine that runs or the place in `main`; `then` and `orelse` are
where the leaf routines (`loadinode_archive`, `fetch_id`) return to, well or
with an error. The four cursors are `a->directory` and the locals of the
routines that have one; a cursor that goes out of scope is closed by its routine
on all its paths (`Close`), and which block it is on is left open, as any may be
asked for. `Evict` is what the cache does with a block whose counter is zero;
that no cursor is on it is not part of the guard but what the refinement shows.
An action is taken for a routine's good end and one disjunct for its error end.
Commands that touch no cursor (`superblock`, `header`, ...) have no action, and
neither has the `print_inode` on the error path of `setdirectory`, after which
the program ends.

## 3. What is checked

| Run | Shows | Bounds |
| --- | --- | --- |
| `cache` | types, shape of the list, counters, keys, that recycling succeeds, that errors lose and leak nothing, that every block is freed once, that pinned blocks are left alone, the inductive invariant; every call returns; the cache implements `BlockCache` | 2 cursors, quota 3, 4 metablocks, 3 blocks |
| `cache_bound` | a violation: the cache exceeds its maximum | as `cache`, 4 blocks |
| `avl` | order, balances, reported depths, search, a set of keys | keys 1..11, `MaxHeight` 5 |
| `dir` | the pwd follows the paths, the inode searched is that of the pwd, listings stay in step, commands end | 5 directories, 2 files, depth 2 |
| `dir_empty` | a violation: an empty component | as `dir` |
| `file` | the file is printed, the reader's three places stay in step, ids below the divisor are right, `cat` ends | 11 files, blocks of 3 bytes, sizes wrap at 9, metablocks of 5, words of 2; 5 ids |
| `file_large` | a violation: a large file | as `file` |
| `id_beyond` | a violation: an id from the divisor on | as `file` |
| `nbd` | both clients: reads return what they asked for, nothing is left in the streams between reads (over TLS nothing of a read), the socket is closed once, calls end | offsets 0 and 1, 2 cells, timeout of 2 ticks, 1 message and 4 cells under way; over TLS any reply past the session, one at a time |
| `nbd_late` | a violation: a late reply | as `nbd`, up to 2 cells, 2 messages under way |
| `nbd_tls` | a violation: the acknowledged negotiation fails | as `nbd`, 2 messages under way, nothing past the session |
| `shell` | cursors are counted and given back, at most two are open, everything is released once | 3 metablocks |

Why these bounds are enough. `cache`: with four metablocks and a quota of three,
blocks have to be recycled; with two cursors there may be none, one or two
pinned blocks in front of the one that is found. `QuotaBound` lets failed reads
raise the quota once above its grant; the block it then allows is only there in
`cache_bound`, and nothing but the bound depends on it, which
`MetablockCacheProofs` shows for any number of blocks. `avl`: the quota of the
program is ten, so these are all trees it can build from eleven offsets, and
those with one node more; the deepest has four levels, so `MaxHeight` stops
nothing, and every rotation occurs; `AvlProofs` removes the bound. `dir`: inodes
in two metablocks so that a pointer with the wrong header leads elsewhere; the
same name in several directories; a root with two headers; empty directories;
paths that go up, stay, fail in the middle, meet a file and exceed the depth,
which is 2 instead of 10. `file`: files that are empty, shorter than, as long as
and twice as long as a block, with a sparse block, with a tail in a stored and
in a packed fragment, at its start and at its end, behind blocks or alone; words
that lie across two metablocks and inodes that end with one; sizes beyond the
wrap at 9 that are cut to a whole block, to a part of one and to a tail. `Wrap`
is a multiple of `BlockSize`, as 2^32 is of every block size. Files are printed
one after the other, so every buffer content of one meets every other. `nbd`: a
read of two cells can be cut between them, and the largest reply (header and two
cells) just fits, so that it waits until a ticket or a reply before it has been
taken (an error is short enough to follow at once); a record of several cells
can be decrypted at once. Two ticks let a call wait and still finish in time.
The negotiation over TLS does succeed, with a reply past the session, and reads
follow. A second request while the first is unanswered and reads of no or one
cell are in `nbd_late` only; `NbdProofs` removes all these bounds, for the
safety properties. `shell`: one metablock more than cursors are ever open, so
that all of them can be on the same block or on different ones with one left to
be evicted; `ShellProofs` removes the bound.

Fairness. A started call or command continues: `WF` of the internal steps
(`Internal`, `Loop`, `CatStep`) and of nothing else, because the program is one
thread that runs straight on. Nothing is assumed of the user, nor that reads
succeed. In `nbd` it is `WF` of the client's steps (`Client` or `TlsClient`) and
of `Tick`, the clock; nothing is assumed of the server. A stream that is full
blocks the sender, as TCP does. `CHECK_DEADLOCK FALSE` stands where the program
can end.

### Violations

`cache_bound`: `archive.c:133` calls the quota the "maximum .left number of
cache blocks". The error path of `init_metablock_cursor` gives one back for
every block it frees (`cursor.c:122`). For a recycled block this is right, its
quota was taken when it was allocated. For a block just allocated it is one too
many, since its quota is only taken after the reads (line 99). After each failed
read of a new block the cache may hold one block more; the only consequence is
memory. `QuotaNotLost` shows that the drift is in this direction only.

`dir_empty`: `README.md:103` says that *cd X* "changes the pwd to the X
directory". For `a//b` the search for the empty name stops right after the
first header has been read, since `filenamebuffer` still holds the empty string
(`directory.c:192,197`). The entry is the one of the search before, the header
is new, and the inode they name together becomes the pwd. When the metablocks
of the two differ it is another directory (in the run: `/a/b` under the name
`/a/`), or none.

`nbd_late`: the program "supports reading [...] files shared over NBD"
(`README.md:10`). A read gives up at its deadline, the command goes on (`ls` and
`s` ignore what `print_combined_dirent` returns), and the reply arrives later:
the next read takes it for its own, because every request has the handle 1
(`nbdclient.c:438,454`), and returns the bytes of another place with success.
From then on every read is one reply behind. `ReadsRight` and `PlainInStep`
show that this is the only way: without a read that gave up, all are right.

`file_large`: `README.md:105` says that *cat X* "cats the file X". The size of
an extended inode has 64 bits and is assigned to an `unsigned int`
(`archive.c:273`), so of a file of 4 GiB or more the size modulo 2^32 is printed
and `cat` reports success; if the file ends in a fragment the tail is read from
there after too few blocks, and the wrong bytes are printed. In the run sizes
wrap at 9. `PrintsFile` shows that smaller files are printed as they are.

`id_beyond`: `README.md:87` says that *id X* "fetches the id corresponding with
the index *X*". An id has 4 bytes and a metablock 8192, so 2048 ids, but
`fetch_id` divides the index by 1024 (`archive.c:454,458`). From index 1024 on
it looks into the wrong metablock or past the table, and returns the id of
another index. `IdsRight` shows that it is right below.

`nbd_tls`: `README.md:72` gives `./shell nbdtls://192.168.1.1:10809/exportname`
as a way to start the program. `eatreplies` reads the header of each reply
through the session (`nbdtlsclient.c:337`) and, in the next line, 20 bytes more
from the socket, where there is nothing or a record of TLS. The negotiation
fails after a correct server has acknowledged the export. The theorem
`TlsNeverServed` says that with such a server it always fails. It takes one that
puts a reply of its own on the socket, past the session, to get on, and
the part of `nbd` over TLS is about what happens then.

## 4. What is proved

`MetablockCacheProofs` proves for every number of blocks, cursors and
metablocks, and every quota above the number of cursors, that all safety
properties of the run `cache` hold and that the cache implements `BlockCache`.
Assumptions: `ConstantsAssumption` (the null pointer is no block; finitely many
cursors) and `QuotaAssumption` (quota above the number of cursors).

The argument. `IInv` is the inductive invariant. Its heart is `ListInv`: there
is an enumeration of the tree's blocks that is the list, in which the scan has
a position before which all blocks are pinned, and the freeing loop a position
before which all have been freed. The properties as they are stated are not
inductive: that the scan does not run off the list needs `PinsCounted`,
`CursorsInTree` and `QuotaNotLost` together (a used-up quota means that there
are at least as many blocks as were granted, hence more than cursors, hence one
that no cursor is on: lemma `PinnedAreFew`), and that the block found is not the
last needs that one cursor, the caller's, is on no block (`CallOK`): lemma
`ScanNotAtEnd`. Each action has a lemma that it keeps `IInv`; `NextInv`
combines them. The step lemmas for `Unlink`, `Install` and `Append` give the
new enumeration explicitly. `RefinesStep` maps: a hit or `Install` to `Open`,
leaving to `Close`, `Unlink` to `Evict`, the beginning of `deinit_archive` to
`Stop`, the rest to stutters.

`AvlProofs` proves for every set of integer keys and every `MaxHeight` that all
properties of the run `avl` hold, the refinement of `KeySet` among them. The
inductive invariant is that the tree is sound (`Sound`): at each of its nodes the
keys are in order (`OrderedAt`) and the stored balance is the true one and at most
one level off (`BalancedAt`). An addition changes one path, so this is an induction
along the path, in which more has to be said than the invariant does: by how much
the height changed, which keys there are now, and, for `addnode`, that a tree that
grew leans to one side (unless it is the new leaf), since a level left subtree would
send `addnode` into `rebalanceleftright` and the balance would be wrong (`Grown`,
`Shrunk`, `AddNodeGrows`, `RmNodeShrinks`). Each rotation has a lemma for the one
shape of tree it is called on; `rebalanceleftbalance` and `rebalancerightbalance`
need that the balance of `a` already is what "redundant" claims. `LeftGrewIs`,
`LeftShrankIs` and their mirror images pick the rotation, `RemoveRootIs` replaces a
node by its neighbour, and `SoundNode` is what all of them end in: a node over two
sound trees is sound if it is between them and says how they compare. The recursive
functions are shown to be what they say level by level (`HeightIs`, ...,
`ExtractLowestIs`), and the induction over trees (`TreeInduction`) is, like
`NatSetInduction` of `NatSets`, one over sets: a set of trees with the empty one
and every node over two of its members has all trees.

`ShellProofs` proves for every set of metablocks that all properties of the run
`shell` hold; its only assumption is `NilAssumption` (no block is no offset).
`UsesCounted` is not inductive without `TypeOK`, and the refinement needs
`CursorInv`: where in the program each of the four cursors can be open, hence
that the directory's and the fragment's take turns and so do the inode's and the
id's (`TurnsTaken`). `ReleaseInv` says what `main` holds at each of its places.
`CacheStep` reduces all actions to four things that happen to the cache:
`Close`, `Open`, `Evict` and `deinit_archive`; each has a lemma that the
counters stay right (`CloseCounts`, `OpenCounts`, `DeinitCounts`) and one that it
is a step of `BlockCache` (`CloseRefines`, `OpenRefines`, `EvictRefines`). Together
with `Refinement` of `MetablockCacheProofs`: the program's two cursors on a
quota of ten satisfy `QuotaAssumption`.

`DirectoryProofs` proves for every well-formed archive, depth, path and name that
all safety properties of the run `dir` hold but `CdResolves`. `IInv` adds to the
types what ties the reader together: the last header is the one that the next
item comes under, and `entry_count` is what it has left (`ReaderInv`; the archive
is well formed in that a header is followed by the entries it counts), that a
search reads the pwd (`SearchInv`), and that what was listed is the entries up to
`pos`, one by one (`ShownInv`: the entry numbered n was shown n-th). `ListingInStep`
without `ReaderInv` is not inductive, since the pointer of an entry is made of
`header`, which only then is the header of that entry. `PwdNamesDirectory` has the
hypothesis `NoEmptyComponent`, and `dir_empty` shows that it is needed: the invariant
`NameInv` says that while a search goes on, neither the buffer nor any entry passed
over has its name, so that a match is an entry just read; at the start of a search
for the empty name it does not hold, since the buffer is empty.

`PathProofs` proves `CdResolves`, with the further hypothesis `NamesDiffer`: the
entries of a directory have different names, as in every archive that mksquashfs
makes; otherwise the path would lead to several directories. Where a path leads
is a recursive function of the path (`Walk`). That this function exists, and what it
is at a path with a first component (`WalkExists`, `WalkStep`), is shown by
induction over the length: not with an induction theorem over formulas but with the
set of the lengths for which the claim holds, which has 0 and with each number the
next (`NatSetInduction` of `NatSets`, from the well-foundedness of the naturals). The invariant
`ResolveInv`: from the pwd, the rest of the path leads where the whole path led
from the pwd of the beginning. One lemma for each thing that `cd` can do with a
component says that it keeps this (`FollowSame`, `FollowBack`, `FollowStops`,
`FollowEnters`); that a search which ends without a hit means that there is no such
directory is `MissingIsNone`, from the entries already passed over.

`ArchiveProofs` proves for every well-formed archive (any sizes of blocks,
metablocks, words, files, any number of fragments and ids, `Wrap` any number above
`BlockSize`) that all safety properties of the run `file` hold. `PrintsFile` is a
statement on the output alone; the invariant under it (`PrintInv`) says where cat
is: at block k the output has k - 1 blocks, `bytesleft` is what the size has beyond
them, the place on disk is where block k starts, the cursor is as far into its word
as `word` is long, and after the read the buffer begins with its bytes
(`BlockInv`); at the tail the output has all blocks and `bytesleft` is the length of
the tail (`TailInv`). Between a read and the write nothing may touch the shared
buffer, which is why `BlockInv` speaks of it only at `write`. `TurnAt` is the
arithmetic of the code's loop: after n whole blocks comes the next block, after the
last one the tail, or nothing is left, with the sizes that `BlockLen` and `TailLen`
say. `RefuseKeeps` shows that nothing is refused. Where the size does not fit
(`Wrap`), only the types are claimed (`CountInv`), and `file_large` shows why.
`fetch_id` below its divisor: quotient 0, remainder the index.

`NbdProofs` proves the safety properties of the run `nbd` for every set of
offsets and counts, every timeout, window and buffer, and whichever replies come
past the session. `UnionInv` is the invariant of the client that the program
has. `ClientInv` is what both clients keep: the types, and how `n->fd`, the
socket and the number of closes go together. Without TLS, `StreamInv` says for
each place of the client what can be in the two streams and what the server can
be doing: before the option nothing, then replies in which every text follows
its header and nothing follows an acknowledgement or an error (`Negotiation`),
at the prompt nothing, with a request under way the request or what is left of
its answer (`Splits`). All this only until a read gives up (`lost`); `nbd_late`
shows what is then. `ReadsRight` needs all of it: a read takes whatever comes
next for its answer.

Over TLS the prompt may be reached with replies unread, so this is not an
invariant. `SessionInv` says less of the streams and enough for the reads: that no
request and no piece of an answer is under way unless a read is (`TlsReadInv`), and
that an answer is somewhere in the stream in one piece, what was read of it
followed by what is there (`Arriving`), with other cells before and after it; once
the header has been read, nothing is before it. `ToldInv` (the client has gone by a description that
the server sent) and `PendingInv` (what is decrypted is the front of the stream)
complete it. `ClearInv` is for `TlsNeverServed`: a server with `Cleartext = {}` never
has at the socket what the client needs to leave `eatreplies`.

The assumptions on constants are those of the modules (`ConstantsAssumption`,
`QuotaAssumption`, `NilAssumption`, `ArchiveAssumption` and `NamesAssumption` of
`Directory`, `ArchiveAssumption` and `DiskAssumption` of `ArchiveRead`,
`NbdAssumption`, `TlsAssumption`, `TreeAssumption` of `AvlTree`), which TLC evaluates on the instances of the runs, and the two
hypotheses named above, which hold on the instance of `dir`.

Only model-checked: liveness (`CallsReturn`, `CommandsReturn`, `CallsEnd`,
`CatEnds`), which is beyond the prover.

## 5. Plan

Done: the cache, the tree, directories, files and ids, both NBD clients and the
shell, and the proofs of all their safety properties, action properties and
refinements.

Not modelled, and why:

- the fields of `a->inode` one by one and the layouts of inodes (`fill.c`):
  data, on which only the printing depends. A failed read that leaves the
  fields of two inodes mixed (`directory.c:109`) is therefore not visible;
- GnuTLS, zlib, the kernel's sockets and files: external;
- archives that are not well formed: what the program does with them is to
  refuse or to print something that has no reference to compare with;
- formatting (`print.c`), byte order and escapes (`misc.c`), the options of gzip
  (`gzip.c`, which nothing reads), the splitting of the URL and `strtou`
  (`unionio.c`): no state, no control that a property depends on.
