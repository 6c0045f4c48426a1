# A verification of Suda's secure data alignment and its baselines

Suda (`src/mpc_projects`) aligns two tables without showing either to the other
party: a *host* with an identifier column and feature columns, and a *client*
with identifiers and labels, end with secret shares of the joined table, row by
row in one order. These modules model that protocol, from the set intersection
to the byte streams and the retrieval by polynomials. The repository also holds
the programs Suda is measured against; of these, the thread pool and the
oblivious shuffle of iPrivJoin (`src/iPrivJoin`) and the retrieval of PIRANA
(`src/PIRANA`) are modelled. TLC checks small instances of every module; TLAPS
proves the properties of the intersection, the drivers, the feature layout, the
wire format, the retrieval, the thread pool, the shuffle and PIRANA for every value
of the constants.

Everything below cites files of the repository; without a directory, a header is
in `src/mpc_projects/src/include/`.

## 1. The system and its parts

| Component | State it keeps | Operations | Modelled in |
|---|---|---|---|
| EC PSI players, `ec_psi.h` | host: `zeros_cipherR/Q`, `b0s`, encrypted ids; client: secret scalar, `new_id_and_b1s` | `set_public_key`, `generate_query`, both `generate_response`, both `return_answer` | `EcPlayers`, `EcPsi` |
| Alignment drivers, `psi_to_share.h` | locals of each process: `new_ids`, label shares, batch size, results; two sockets | `psi_to_share_2party_socketopt` (two overloads), `..._fromfile` | `PsiToShare`, spec `Alignment` |
| Connection set-up, `psi_to_share.h`, `netio.h` | acceptors and connections at two addresses | constructors' `asioConnect` calls, `send`/`recv` by address | `Setup` |
| Feature layout, `batch_pir_to_share.h` | `pieces_f`, the plaintext file, `result0` | constructor, `gen_response` (two overloads), `extract_answer` | `FeatureLayout` |
| Wire format, `netio.h`, `utils.h` | frames in flight, sizes read so far | `send_..._socket`, `recv_..._socket` | `Wire` |
| Polynomial batch PIR, `batch_pir_basic.h`, `poly_tool.h` | encoded columns, the query's keepers and powers, `chara_poly` | `encode`, `gen_query`, `gen_query_stream`, `set_chara_and_Xpowers_mod_chara`, `set_evaluate_basis`, `poly_reduce`, `poly_cipher_toShare`, `extract_answer` | `Polynomials`, `PolyPir` |
| Batch PIR protocol, `batch_pir_protocol.h` | as above, without shares | `gen_query`, `gen_response`, `extract_answer` of `BatchPirServer`, `BatchPirClient` | `PolyPir` (the classes; not the measurements around them) |
| Paillier PSI, `ec_psi.h`, `psi_to_share_paillier.h` | as the EC players, with shares of type `uint32_t` | as the EC players | `PaillierPsi`; its messages in `Wire` |
| iPrivJoin's thread pool, `src/iPrivJoin/src/threadPool.h` | queue, `stop`, condition variable, workers | constructor, `enqueue`, worker loop, destructor | `ThreadPool`, spec `TaskPool` |
| iPrivJoin's shuffle, `src/iPrivJoin/src/shuffle`, `ggm` | both vectors, trees of the tasks, ports in use | `oShuffleSender`, `oShuffleReceiver`, `mShuffleSender`, `mShuffleReceiver`, `ggm_send`, `ggm_recv` | `Ggm`, `Shuffle` |
| the rest of iPrivJoin: OPPRF, OPRF, hashing, `shuffle_sender`/`shuffle_receiver`, the join | none of its own | calls into volePSI and libOTe | no |
| PIRANA, `src/PIRANA/src` | database plaintexts, the cuckoo table that client and server share | `PirParms`, `gen_query`, `gen_response`, `gen_batch_query`, `gen_batch_response`, tests' reading of answers | `PiranaParms`, `PiranaServer`, `Pirana` |
| SEAL and IPCL helpers, `seal_helper.h`, `ipcl_serializable.h` | none | `unzip`, `unzip_vec`; formats | `unzip` in `PolyPir`, formats not |
| Files, `file_io.h`, `get_newid.h`, `mem_usage.h`, readers of json, csv and binary files | none | formats | `save_csv_transpose` in `PsiToShare`; the rest no: input and output |
| `fake_netio.h` | global queues | in-process `send`/`receive` | no: used by a test only |
| `mpc_lr/`, `python/` | none | training with CrypTen, data conversion | no: numerical work in a framework |
| volepsi fork (`src/volepsi`) | a vendored library | experiment programs around it | no |

**How they interact.** Each driver is run once per process. A process builds its
`PSItoShareServer` or `PSItoShareClient`, whose constructor makes a connection in
each direction (`Setup`). Then, in order: the client's public keys; the PSI query
(`EIDs`, encrypted labels); the host's response (its own short points, the
client's points and label ciphertexts shuffled); the client matches and returns
`intersection_lastids`; the host picks its label shares. In stage 2 the client
pads `new_ids` to a batch, sends a batch-PIR query for those rows, the host
returns masked columns and both keep a share. With `inter_ratio` the stage-2
objects, and their keys, are made after the intersection is known. All messages
go through `netio.h`: frames without types, told apart by order only.

The baselines do not touch Suda's code. In iPrivJoin each process calls
`oShuffleSender` or `oShuffleReceiver`, which make one `mShuffle` call per block
of rows and layer; a call builds a thread pool, gives it one task per row, waits
for all their futures and destroys it. The tasks of the two processes meet on
ports counted from the call's own. PIRANA is one process: `main.cc` makes the
parameters, a server and a client, and `test.cc` compares the answers with the
database.

**What is hard.** The shuffle, the two label-share lists and the row list must
name the same rows although three calls on two machines build them; answers
accumulate over queries; prefixes of points may collide and identifiers repeat;
both processes size their tables apart from each other; the client sends ahead
of the host; the connection calls of both sides must meet; features are
interleaved, put in a ring and written to a file with three different periods.
In the retrieval a factor 2^k is divided out on one machine and multiplied in by
doublings on the other, polynomials are shorter than the code thinks when a
leading coefficient vanishes, and the host and the guest find the same grid by
different formulas. In the pool a notification is outside the mutex and the
destructor races with workers and with tasks that enqueue. In the shuffle every
task holds a thread while it waits for its counterpart of the other process, on
ports that every call uses again. In PIRANA one index formula lays the database
out, another turns and sums, and a third reads the answer; queries that did not
fit the cuckoo table are sent all the same.
Nothing is restarted or retried: there is no crash recovery in this code, and a
stream is reliable and ordered (TCP under coproto). `PROJECT.json` lists each
hazard at its line.

**What makes each part correct.** PSI: shares of matched rows' labels, aligned;
each match once; no false match unless prefixes collide. Drivers: both outputs
have the join's rows in one order, both return. Layout: every feature's two
shares are of one column, and of its own. Wire: each receive takes the frame
meant for it, in every scheme, and nobody waits forever. Retrieval: what the
guest reads, or the two shares' sum, is the value in the host's table. Pool: a
task that was taken runs once and ends, whoever stops the pool when. Shuffle:
tasks meet their own counterparts, a rebuilt tree lacks one path and nothing
else, both processes return. PIRANA: the answer is where it is read.

## 2. Modules

    EcPlayers ──── EcPsi ──── MCEcPsi          Alignment
        │   └── PaillierPsi ── MCPaillierPsi       ▲ refines
        └───────── PsiToShare ── MCPsiToShare ─────┘
    Setup ─────────────┘
    FeatureLayout ── MCFeatureLayout           Wire ── MCWire
    Polynomials ── PolyPir ── MCPolyPir

    ThreadPool ── MCThreadPool                 TaskPool
        └── refines ────────────────────────────┘   │ one instance per process
    Ggm ── Shuffle ── MCShuffle ────────────────────┘
    PiranaParms ── PiranaServer ── Pirana ── MCPirana

| Proofs | About | Extends |
|---|---|---|
| `SumsAndRemainders` | no model: lemmas for all the others | |
| `EcPlayersProofs` | EcPlayers | `SumsAndRemainders` |
| `PaillierPsiProofs` | PaillierPsi | `EcPlayersProofs` |
| `PsiToShareProofs` | PsiToShare with Setup and Alignment, and EcPsi | `EcPlayersProofs` |
| `LayoutAndWireProofs` | FeatureLayout and Wire | `SumsAndRemainders` |
| `PolynomialProofs` | Polynomials | `SumsAndRemainders` |
| `PolyPirProofs` | PolyPir | `PolynomialProofs` |
| `BaselineProofs` | ThreadPool, Ggm, Shuffle, Pirana | `SumsAndRemainders` |

A proof module that is about several models extends all of them. That is why the
definitions every model has carry a name of their own where they would meet
another's: `PlayersSpec` and `PlayersTypeOK` in EcPsi, `LayoutSpec`, `ThreadPoolSpec`,
`PiranaTypeOK`.

* **EcPlayers** keeps the state of `ECPlayer0` and `ECPlayer1` and has one
  operator per method. A point is the identifier it hashes from and the set of
  scalars it is multiplied by, so encryption commutes by construction as it does
  on the curve, and `Cut` (12 bytes of the coordinate) may collide as
  `ShortOf` says. A label ciphertext is its key and sign bit; blinding with a
  zero ciphertext of another key gives noise. `index` is a local of
  `generate_response`; it is kept so that properties can name client rows.
  The matching loop takes one row per step.
* **EcPsi** is the environment of the tests: one caller, the methods in order,
  several queries on one pair of objects. `LoadKey` is `psi_to_share_test.cpp`;
  `SkipKey` is `ec_psi_test.cpp`, which never calls `set_public_key`, so that the
  zero ciphertexts are whatever the memory held.
* **Setup** gives each process the list of its connection calls, in the code's
  order; an acceptor takes one connection. **PsiToShare** extends it and
  EcPlayers with both processes of a driver and the two streams, one action per
  block of calls between two messages. `Driver` selects the function. Stage 2 is
  modelled by what it computes: for random `result0` the client gets the
  complement modulo `P`, and noise if the host holds no stage-2 key. `saved0` and
  `saved1` are the lines that both processes of the "file" driver write with
  `save_csv_transpose`, the client's shares less `P`. Features' order inside the plaintexts is FeatureLayout's subject.
* **PaillierPsi** is the variant with additive label shares, `ECPaillierPlayer0`
  and `1` under stage 1 of `psi_to_share_paillier.h`, each process with its
  program counter. The state, the points, the hash map and `return_answer`'s
  choice of rows are EcPlayers'. Labels are words: the mask is a `uint32_t`
  below half its range (`random()`), its negation is unsigned, the sum is a
  number below the Paillier modulus, the client keeps its lowest word, and both
  parties' words end in a `vector<bool>`. `Modulus` stands for 2^32.
* **Alignment** is what a user is promised: stage by stage a join, the host's
  shares, the client's shares, which reconstruct the joined table. It knows no
  shuffle, batch, padding or message.
* **SumsAndRemainders** has no state: lemmas on `%` and `\div`, among them that a
  share and its complement modulo `m` add up (`ComplementAdds`); that a finite set of
  integers has a largest element (`LargestElement`); induction along a set of
  numbers (`InductionUpTo`), and with it what the folds and sums of the community
  modules are equal to; the digits of a number (`Digits`), and the ranks of a set's
  members, which number them without gaps (`RanksAre`).
* **FeatureLayout** is the server's constructor, both `gen_response` overloads
  and `extract_answer` as loops over blocks. A coefficient is its column and
  degree; `% 0`, an index out of range and a read past the file's end are steps
  into the phase `fault`.
* **Wire** writes and reads the messages frame by frame, with a bounded number in
  flight. `recv` checks a frame's size, `recvResize` nothing: only those can
  stop a receiver. A serialised string has no length the model tells apart.
* **Polynomials** is what `poly_tool.h` asks of NTL, modulo a small prime, and
  plaintexts modulo `x^N + 1` with `apply_galois`. **PolyPir** is one host and
  one guest of `batch_pir_basic.h` in either pair of classes (`share` tells
  which): the constructor, `gen_query` up to the keepers, the keepers in both
  overloads, `set_chara_and_Xpowers_mod_chara` with its unzipping,
  `set_evaluate_basis`, one iteration of `gen_response` per step and
  `extract_answer`. A ciphertext is its plaintext. What is thrown, and a read
  outside a vector that a check notices, is a step into the phase `fault` with
  its reason in `why`; the copy of a keeper past its end (line 1038) reads any
  value of `Garbage` instead. `OddBatch` and `OddCols` stand for 2048 and 64, the
  one batch size that has a grid of its own, and `KeyLevels` is 4 as in the code.
  Tables have at least half as many rows as a plaintext has coefficients:
  `encode`'s assertion and `poly_reduce`'s checks stop at smaller ones.
* **TaskPool** is what the users of the pool rely on: tasks taken in order,
  started in order by at most `size` threads, each ended once, and a close after
  the last. **ThreadPool** is `threadPool.h`: a critical section of `queue_mutex`
  is one action; running a task, `notify_one`, `notify_all` and the joins are
  actions of their own, so they interleave. A blocked worker may wake by itself.
  A task may call `enqueue`; if `stop` is set the call throws and the exception
  ends in the task's future (`failed`).
* **Ggm** is `ggm.cpp`: blocks are sets of atoms, xor is symmetric difference,
  children are atoms of their parent's value. **Shuffle** is both processes of
  `shuffle.cpp` with a pool each (two instances of TaskPool, whose refinement
  ThreadPool shows), their tasks, the connections and the messages. The
  generator of `mShuffleSender` is seeded with zeros in every call, so the keys
  are the same in every call. The oblivious transfer in `ggm` is external: it
  hands out the chosen side. `Port` counts in eight bits as `incrementPort` does.
* **PiranaParms** is `PirParms` with `utils.cc`'s codewords. **PiranaServer** is
  the data path as functions: layouts of the database, queries, selection
  vectors, rotations, sums, and the index at which `test.cc` looks for a slot of
  the payload. A ciphertext is the vector of its slots. **Pirana** is the program
  around it: parameters, server, one query; or batches through the cuckoo table,
  with one step per item moved. Kuku is external: `Locations` are its hashes, the
  place an item is kicked from is any of them, `MaxProbe` its limit. Client and
  server share one `PirParms` and with it one table. `main.cc` runs one batch;
  the model allows more, as the interface does. The branch of
  `rotate_selection_vector` for `preRotate` 1 is left out: the constructor of the
  server has failed before.

Operators named after a mutation (`...Swapped`, `...Once`, with a comment
"mutant") are not part of the models; they are the deliberate mistakes each
property is tested against.

## 3. What the runs check

| Run | Instance and why it is enough | Shows |
|---|---|---|
| `ecpsi` | host rows a, b, a; client columns of 1 or 2 out of a, b, x with every label; two identifiers with one prefix; 2 queries; every shuffle and mask. Contains repeated identifiers on both sides, no match, all match, a collision, and a second query of another size on used objects; the public key loaded or not | `PlayersTypeOK`, `SharesAlign`, `EveryMatchOnce`, `TrueMatches` |
| `drivers` | all three drivers; four host rows, columns with 0, 1 and all rows in common, modulus 3, one feature, every mask and padding draw; the "file" driver's three short-lived connections | `InOrder`, `SizesAgree`, `RowsDistinct`, `OutputsAlign`, `FilesAlign`, `BothReturn`, `ImplementsAlignment` |
| `layout` | plaintexts of 4 coefficients, batches 1 to 4 (one does not divide), 2 to 8 columns, up to 9 features, ring of 4, 2 queries in either overload: rings smaller and larger than a plaintext, wrapped once and twice | both shares of each feature are of one column; supported sizes do not fault |
| `layout_columns` | the same | *violated*: see below |
| `wire` | columns of up to 3, 1 or 3 frames in flight, all schemes | the frame read is the field asked for; both programs end |
| `paillier` | words of 3 bits, a Paillier modulus of 35, labels −1, 0 and 1, host rows a, b, a, columns of 1 or 2, every shuffle and mask; sums below and above a word both occur | `WordsAlign`, `DifferingBitsTell` |
| `poly` | plaintexts of 64 coefficients over the field of 97 elements, tables of 32 rows, 8 or 32 columns, batches 1 to 32 with every kind of grid (square, odd, none), more columns in a plaintext than Galois keys allow, rows in a run, evenly spread, strided and repeated, rings of 1 and more plaintexts, 2 queries | `SupportedNeverFaults`, `SharesAddUp`, `RetrievalRight` |
| `poly_grid`, `poly_spread` | the same | *violated*: see below |
| `threadpool` | three workers, four tasks, enqueued by the owner or by other tasks, destructor at any time: more tasks than workers and the reverse | no task lost or run twice, no wake-up lost, tasks end, destructor returns, TaskPool refined |
| `shuffle` | four rows in blocks of two through three layers (two permutations of the swap layers, two of the box layer), and one direct call with trees of four leaves; pools of 1 and 3 threads on either side, so less and more than a call's tasks | `MeetRight`, `Punctured`, `SharesUpToLocal`, `BothReturn` |
| `pirana` | ciphertexts of 8 slots; one query to databases of 1 to 24 rows (below, at and above a ciphertext, powers of two and others) with 1 to 19 slots (below and above one); two batches of 2, 5 or 6 queries through tables of 4, 8 and 16 places, with colliding hashes so that queries are left out; keys beyond 16 | `SingleRight`, `BatchRight`, `SupportedNeverFaults` |

Bounds are constants with a "bound:" comment or named for it (`MaxBatch`,
`MaxRounds`, `MaxFeatures`, `MaxQueries`, `MaxBlocks`, `MaxIds`, `MaxTasks`,
`MaxBatches`); the rest are table sizes. One feature suffices in PsiToShare since
features are treated alike there, and FeatureLayout and PolyPir have many. `Prime`
97 is the least prime with an element of order 32, and gives tables as many rows
as a plaintext has used positions. `Masks` and `Shares` hold one full random
value each, since everything they enter is linear in them. The supported real
sizes of the retrieval, with 4096 used positions and 2048 the odd batch, are 256,
1024, 2048 and 4096.

**Divergences found.**

*Columns.* `psi_to_share_2party_socketopt_fromfile` builds its server
with `use_out_mem` (`psi_to_share.h:1328`). The ring then has four columns
(`batch_pir_to_share.h:202`) and the constructor encodes `data[i%fake_feature_num]`
(lines 216 and 234), so with more than four columns feature *f* is served from
column *f* mod 4. `test_feature_correctness` (line 545) expects column *f*. The
invariant `FeaturesServed` states what the code does deliver, and `OwnColumns`
what the test expects.

*Spread rows.* `find_row_col_basis` hands out keepers as NTL has normalised them
(`poly_tool.h:319`) and `gen_row_col_basis` copies `batch_size` coefficients of
each (`batch_pir_basic.h:1038`). For evenly spread rows the keepers are
polynomials in a power of x and end earlier, so the copy reads past the vector.
`SharesAlwaysAddUp` is what the tests ask for; `SharesAddUp` says that keepers of
full length are enough for it.

*Grids.* `gen_row_col_basis` throws when `sqrt(batch_size)` columns do not divide
the batch (`batch_pir_basic.h:1008`). The drivers choose powers of two, among
them 32, 128 and 512, which have no grid. `SupportedNeverFaults` says which sizes
go through.

**What else the modelling showed**, where no document says what is meant: the
first loop of `mShuffleSender` adds the leaves of a tree that the receiver never
sees (`shuffle.cpp:116`), so both vectors together are the permuted input plus
those leaves; `SharesUpToLocal` states that nothing else is left over. A machine
with one core gives a pool of no threads, on which `mShuffle` waits for ever; the
model's pools have at least one. In PIRANA, a million rows of 256 bytes make
`preRotate` 1, and the encoder divides by `preRotate / 2` (`server.cc:153`);
below half a ciphertext a number of rows that is no power of two meets the
assertion of `PirParms`. A query that the cuckoo table left out is sent for
place 0 and spoils the answer of the query that is there, and where the batch
compresses a key is cut to 32 bits: `BatchRight` is about the queries to which
neither happens (`Sound`).

**What the saved shares are worth.** The client of the "file" driver saves
`result1 - prime` (`psi_to_share.h:1519`), the host its share as it is, and
`mpc_lr/mpc_autograd_lr_from_csv.py` adds the two without the modulus.
`FilesAlign` says what that sum is: the value where the host's share exceeds it,
which for values far below the prime is nearly always, and the value less the
prime elsewhere.

**Where no key is set.** Without `set_public_key` the shares of labels are noise,
but the rows still match: `SharesAlign` asks for the labels only where the
client's key is loaded, `EveryMatchOnce` and `TrueMatches` in either case.

**What the Paillier shares are worth.** `WordsAlign` holds of the words the
players keep. `ECPaillierPlayer0::return_answer` (`ec_psi.h:1253`) returns the
host's through a `vector<bool>`, and the driver stores the client's in one
(`psi_to_share_paillier.h:438`); nothing in the repository says what these bits
are for, and its test does not read them. `DifferingBitsTell` states what
they still carry: differing bits mean a label that is not 0, equal bits mean
nothing.

**Where properties are conditional.** `RowsDistinct` is about clients without
repeated identifiers: a repeated one is matched twice and queried twice. In the
"count" driver the padding rows are the host's last, so a common identifier
there, or an empty intersection (row `host_n_data` is named), would break it;
the runs use data laid out as the test's. `ImplementsAlignment` assumes unique
prefixes. The "ratio" and "file" drivers draw padding until a row is unused,
which never ends for a batch larger than the host's table; the instances keep
the batch within it.

**Fairness.** Weak fairness for each process of PsiToShare and Wire: a driver is
a sequential program without waits of its own besides its socket calls, and the
operating system runs it. Nothing stronger is assumed: a receive is enabled from
its message's arrival until it is taken. Padding in the model takes an unused
row in one step, for the loop that draws until it has one. In ThreadPool every
worker, every pending notification and the destructor once begun are weakly
fair; nothing obliges the owner to destroy the pool, a task to call `enqueue`, or
a worker to wake without a notification. Shuffle has weak fairness of its next
step as a whole: some thread runs as long as one can. EcPsi, PaillierPsi,
FeatureLayout, PolyPir and Pirana have safety properties only.

Deadlock is checked in every run but two: a finished system stutters through an
explicit step. Shuffle and Pirana end in states without a step; in Shuffle
`BothReturn` takes deadlock's place, and Pirana is one sequential program whose
end, or fault, is the last state.

## 4. What is proved

`EcPlayersProofs` and `PsiToShareProofs` prove for EcPsi, for every identifier set,
prefix function, host table, batch size and number of queries (assuming only
`EcAssumption`: host rows are a finite set of naturals and the tables have their
types, and `RoundsAssumption`: the bounds are naturals):

* `TypeCorrect`: `PlayersSpec => []PlayersTypeOK`;
* `SharesAreAligned`: `PlayersSpec => []SharesAlign`;
* `MatchesAreComplete`: `PlayersSpec => []EveryMatchOnce`;
* `MatchesAreTrue`: `PlayersSpec => []TrueMatches`.

None of the last three is inductive: they speak of the end of a query. The
invariant `PlayersInv` adds what holds on the way: the response the client reads is
the one the host's current `index` and `b0s` belong to; and the loop's lists satisfy `Aligned` up to the
loop counter (`lastids` increases, holds exactly the rows with a match, and the
same number of entries at the end of `new_id_and_b1s` belong to it, whatever
earlier queries left before them, and with the client's key loaded both shares of
such a row xor to its label). The lemmas follow the argument: blinding
cancels (`BlindingCancels`), a split share xors to the label (`SplitShareXor`),
the hash map yields a matching row if there is one (`LastRowMatches`, on
`LargestElement`: a finite set of rows has a last one), and one iteration keeps
`Aligned` (`MatchRowAligned`).

`PaillierPsiProofs` proves `WordsAreShares`, `Spec => []WordsAlign`, for every
word size, every Paillier modulus of at least two words and every table
(`PaillierAssumption`). `ModUnique` (the remainder is unique, from
division with remainder) gives `WordsAdd`: a mask and the cut sum add up to the label, since
the sum of two words stays below the Paillier modulus. The invariant `PInv` ties
query, response and the host's `index` and `b0s` together in every pair of
program counters and keeps the two lists `Paired` through the matching loop
(`PairedAppend`). `EcPlayersProofs`' `BlindingCancels` and `LastRowMatches` are
used again. `BitsTell` is `Spec => []DifferingBitsTell`: beside `PInv`, `BitsInv`
says which list each vector of bits was made from, and that the host makes its own
only when the client's lists are complete; `ZeroTogether` (shares that add up to 0
are both 0 or neither) does the rest.

`PsiToShareProofs` proves, for every host table, every client table, every set of
features, every modulus and all three drivers (`EcAssumption` and
`DriverAssumption`: the tables have their types, the modulus is positive, the
client's column is finite):

* `Typed`: `Spec => []TypeOK`;
* `ReadInOrder`: `Spec => []InOrder`;
* `SizesMeet`: `Spec => []SizesAgree`;
* `RowsAreDistinct`: `Spec => [](driver # "count" => RowsDistinct)`; for "count" it
  depends on the data (see section 3), so only the run shows it;
* `OutputsAreAligned`: `Spec => []OutputsAlign`;
* `FilesAreAligned`: `Spec => []FilesAlign`;
* `AlignmentImplemented`: `UniquePrefixes => (Spec => ImplementsAlignment)`, the
  safety of the refinement of Alignment, if no two identifiers share a prefix.

The invariant `PairInv` is built in layers, each of which is kept by a step that
also keeps the ones before it:

* `SetupInv`: how far each process is in its list of connection calls, and that a
  connection which is made and not yet taken carries the number its maker passed;
  at the end of the lists both have the other's sizes (`SetupAgrees`);
* `FlowInv`: each stream holds exactly the messages written and not yet read, in
  the fixed order of the driver. Their contents are functions of the state that no
  later step changes (`StepKeepsBodies`). What one process has read cannot exceed
  what the other has written, which bounds each program point by the other
  (`Counts`), and the head is the message due (`Due`);
* `JoinInv`: once the client has the response it is the one of the host's current
  `index` and `b0s`, and the lists stay `Aligned` by `MatchRowAligned`, the
  lemma EcPsi's theorems rest on;
* `RowsInv`: `new_ids` starts with the answer, and outside "count" stays free of
  repetitions while it is padded;
* `HostSharesInv`, `ClientSharesInv`: label shares, keys, batch and feature shares
  of each party.

`InOrder` and `SizesAgree` follow from the first two and the sizes of the
batches, the other properties from the last three with `ComplementAdds`. For the
refinement, `Stage`, `Joined`, `HostOut` and `ClientOut` name what Alignment's
variables stand for; `TheJoin`, `TheHostOutput` and `TheClientOutput` give the
right values in every state, three actions are Alignment's three and all others
stutter (`SilentSteps`). The whole invariant has been checked with TLC on the
instance of the run `drivers` as well.

`LayoutAndWireProofs` proves for the wire, for every number of identifiers, every capacity of the
streams and all three schemes (`WireAssumption`: the bound is a natural number,
capacities are positive):

* `WireTypeCorrect`: `Spec => []TypeOK`;
* `WireFieldsAgree`: `Spec => []FieldsAgree`.

Frames carry no type, so that nothing but the order says what a frame is.
`WireInv` makes the order explicit: `Line(s, m, y)` is the y-th frame that `s`
writes in a run with `m` matches. Each stream holds the frames of the line between
those the receiver has taken and those the sender has begun to write (`InFlight`),
and what the receiver asks for next is the line from there on, as far as its
current call and the sizes it has read go (`Asks`). `m` is not known before the
host answers: the first lines do not depend on it (`\E m` in `WireInv`). What
the host answers and expects depends on the size it read in the query, hence
`QueryKnown`. One lemma per action keeps `InFlight` and `Asks`; that
a frame taken is the frame asked for is then their head.

`LayoutAndWireProofs` proves for the layout, for every plaintext size, ring, set of batch sizes
and of data sizes and every number of features (`LayoutAssumption`: a batch fits a
plaintext, data and ring are not empty):

* `LayoutTyped`: `LayoutSpec => []LayoutTypeOK`;
* `EveryFeatureServed`: `LayoutSpec => []FeaturesServed`;
* `NeverFaults`: `LayoutSpec => []SupportedNeverFaults`.

`LayoutInv` says that a filled slot holds the columns of its number, in the ring
and in every ring of the file, so reading a ring back never changes what a slot
means; that the response has the answers of the blocks so far in order; and that
their shares 0 are there. `FeaturePlace` is the arithmetic: the position the client
reads is its feature's own, and the column there is the feature modulo the ring.
`FileInv` counts: a full ring is written for every pass over the ring, and one was
read for every `fake_feature_num` blocks begun (`RingsRead`), which is never more
than was written where whole rings were. Both were checked with TLC on the
instance of `layout` as well.

`PolynomialProofs` and `PolyPirProofs` prove the retrieval, for every field of
remainders, root of unity, degree (a power of two up to 2^15), batch size, table,
list of rows and mask (`PolynomialAssumption`: every remainder but 0 has an inverse
and `Xi` has order `Points`; `PolyPirAssumption`: batches divide half a degree,
half a degree divides `Points`, tables and lists have their types):

* `PolyPirTyped`: `Spec => []TypeOK`;
* `RetrievalIsRight`: `Spec => []RetrievalRight`: without shares the guest reads the
  values of its rows;
* `ShareSumsAreRight`: `Spec => []SharesAddUp`: with shares, and keepers of full
  length, the two shares add up to them;
* `SupportedSizesNeverFault`: `Spec => []SupportedNeverFaults`.

A polynomial is followed by its values (`ValueOf`), which sums, products and
remainders respect. `FftIs` says that `fft_interpolate` returns the polynomial whose
value at `xi^i` is `data[i]`: the sums of the powers of `xi` vanish except for one. In
the ring modulo `x^N + 1` a packed plaintext is `factor` *lanes*, the coefficients
whose positions agree modulo `factor`; a product with a ciphertext of one lane
works lane by lane (`StridedProduct`). One level of `unzip` keeps the even
or the odd lanes and doubles them (`EvenIs`, `OddIs`), which level by level gives
`UnzipIs`; what the host reads after `unzip_vec` is what the guest interleaved, times
the power of two that `gen_query` has divided out (`PowersIs`). So the host's powers
are `x^(batch k)` modulo the guest's `chara` (`CharaPowersAre`), and the sum of the
pieces times powers is, on every lane, the column modulo `chara`
(`ReducedLane`, `PiecesRight`), which has the column's values at the roots of
`chara`. A keeper of a grid's row is 1 on that row's roots and 0 on all
others of the query, hence their product tells one position from the others
(`KeeperIs`, `SentBasisIs`, `UnitAt`) and the host's share times the basis is that
share at its position (`ToShareIs`).

`IInv` says this of every phase: the arguments are sizes the constructor accepts
(`ArgumentsFit`), the query and the powers are those of the current `newIds`
(`PhaseFits`), the keepers in flight and the basis theirs (`KeepersSent`,
`BasisRight`), the plaintexts those of the slots' columns
(`PiecesFit`), and what the guest would read of each block so far is the value
less the host's share (`ResponseFits`, `ResponseRight`). `FaultsRight` says that a fault
means an unsupported size, or a basis asked of repeated rows. It was checked
with TLC on the instance of `poly` first. There is one lemma for each action.

`BaselineProofs` proves for the pool, for every finite set of workers and every
number of tasks (`ThreadPoolAssumption`):

* `ThreadPoolTyped`: `ThreadPoolSpec => []ThreadPoolTypeOK`;
* `TasksInOnePlace`: `ThreadPoolSpec => []OnePlace`;
* `WakeupsKept`: `ThreadPoolSpec => []NoLostWakeup`;
* `NoTaskIsLeft`: `ThreadPoolSpec => []NoTaskLeft`;
* `PoolImplements`: `ThreadPoolSpec => ImplementsTaskPool`, the safety of the
  refinement.

`OnePlace` and `NoLostWakeup` are inductive only together with the types and with
`Leaving`: a worker leaves when `stop` is set and the queue is empty, after which
nothing can be put into it any more, and the destructor returns when all have
left. The refinement maps the queue and the workers' tasks to the three sets of
TaskPool; `OnePlace` says that a task leaves the front of the queue for one
worker, and `Leaving` that the pool closes with nothing in it.

For the shuffle it proves, for every number of rows and layers, every permutation of
a pair or a layer, and every number of threads of either pool
(`ShuffleAssumption`: calls have whole trees, and `sbox` and `pbox` are what
`generateRandomPermutation` returns):

* `ShuffleTyped`: `FewTasks => (Spec => []TypeOK)`;
* `TasksMeet`: `FewTasks => (Spec => []MeetRight)`;
* `TreesPunctured`: `FewTasks => (Spec => []Punctured)`: what a task of the receiver
  rebuilds is the sender's tree of its number without the path to its leaf;
* `SharesOfShuffle`: `FewTasks => (Spec => []SharesUpToLocal)`: when both are done,
  their vectors together are the permuted input, up to the leaves that the sender
  adds of trees of its own.

`FewTasks` is what the eight bits of `incrementPort` allow: trees of height nine at
most, that is 256 tasks to a call; `oShuffle` makes trees of height two. Neither
process tells the other which call it is in. `CallInv` keeps them
together: they are in the same call, or one has met the other for the last message
and is past it, and until then the tasks that have met are the same on both sides,
since ports of a call differ (`PortsDiffer`). A process that is past its call has
no task that listens or connects, whatever the other one has begun. `Side` says
that of either process once, and the lemmas `SideBegins` to `SideReturns` are about
both.

The trees are proved about layer by layer. `InductionUpTo` is induction along a set
of numbers in place of an operator; with it the function and the fold that build
a tree and a sum are shown to exist and to be what their equations say (`TreeIs`,
`TotalIs`, `RebuiltIs`). In `RebuiltPunctured` the induction's statement is that after
`k` layers the receiver knows what lies under the siblings of the path's first `k`
nodes, and nothing else. On the next layer that leaves out the path's node and
its sibling (`KnownNext`), so the sum of the sibling's side lacks the sibling alone
(`MissingIsOff`), which is the node whose index is computed (`IndexIsOff`).
`ReceiverSum` turns that into vectors: the leaves a row of the receiver adds up differ from the sender's in
one leaf, which is the mask the sender puts into its own vector.

`DataInv` is the invariant around it. `Loops` and `Messages` say where the two loops
are and what is in flight: the message of one call, or the layer's permutation,
never both. `Sums` is what a call has made of the trees. `SharesInv` is the claim
of the end for every state between: `Seen` is the sender's vector before the
message in flight, `Source` and `From` the row of a pair whose turn in the layer
has come or not, since the receiver permutes its vector before the first pair and
the sender's is permuted pair by pair; and `Orders` is the permutation so
far. One lemma for each action that touches it (`SharesSent`, `SharesPermuted`,
`SharesReturned`) and `SharesKept` for the others. `CallInv` and `DataInv` were
checked with TLC on the instance of `shuffle` as well.

For PIRANA it proves, for every degree, database, hash functions and batches
(`PiranaAssumption`, `DegreeAssumption`: the degree is a power of two up to
2^15; databases have 1 to 2^30 payloads, as `next_power_of_2` counts in 32 bits and
TLC's integers end below 2^31; batches and hashes have their types):

* `PiranaTyped`: `PiranaSpec => []PiranaTypeOK`: whatever is kicked out of its
  place, the table holds every item once and where its hashes say;
* `SupportedAreServed`: `PiranaSpec => []SupportedNeverFaults`;
* `BatchesAreRight`: `PiranaSpec => []BatchRight`;
* `SinglesAreRight`: `PiranaSpec => []SingleRight`.

For the first, `TableInv` adds that the items still to be inserted are of the
database and that there is one homeless item at most; `TakesPlace` is the step of
both `Settle` and `Kick`. The second is about the parameters that the constructors
choose: powers of two up to the degree divide it (`PowersDivide`), `preRotate` is
one of them (`RotatesChosen`), and is more than one where a rotation saves more
columns than it costs (`RotationSaves`), or where the database is repeated
(`SmallDatabase`).

The answers rest on the codewords. The client numbers its codewords by pairs of code
positions, and the server walks through the pairs in two loops: the pair of a
number is the one that has so many pairs before it (`PairIs`, `CodewordIs`), so a
column's two positions are both set in the codeword of a row's column exactly if
the columns are the same (`CodewordsMeet`).

`BatchInv` says that a batch's query and answer are what the messages carry: nothing
changes the table between them. In its bucket an item has a column of its own
(`RanksAre`), and of all columns the one of the item in the bucket's place is selected
(`CodewordSent`, `ColumnSelected`); the payload is encoded with its slots as digits
(`ColumnEncoded`), hence `BatchAnswered`.

`SingleInv` says the same of one query, together with `FaultInv`, which excludes the
databases on which the constructors stop. `WideShape` and `NarrowShape` are the
parameters of a database of more than half the degree, and of at most
half, where it is repeated (`WideShapes`, `NarrowShapes`); every quotient of powers
of two is one again (`DivisorsArePowers`). The sums of a response are added and turned
one after the other, so a slot holds what each sum had, turned by the turns that
came after it (`TurnedSum`). Each slot of the payload belongs to one ciphertext, one
turn of the sums and one turn of the query (`CountIs`), and the index at which the test
looks is written with these (`ReadFromIs`). That no other turns bring anything there
is `TurnsMeet`: `j` turns of the query and `d` turns of the sums make whole rounds
only if `d` is 0 and the turn of the query is the same. It is applied to the two
layouts, the database as it is (`WideMeets`, `WideAnswered`) and the repeated
one, of which `NarrowIs` says what the encoding puts where (`NarrowHas`,
`NarrowMeets`, `NarrowAnswered`).

Only model-checked: `RowsDistinct` of the "count" driver; all liveness
(`BothReturn`, `AllDelivered`, `EveryTaskEnds`, `DestructorReturns`), which is
out of the prover's reach together with `ENABLED`. Sums and products over lists are
folds, or recursive functions, and are proved about by induction along a set of
numbers. No module uses RECURSIVE.

## 5. Not modelled

* **Cryptography**: that ciphertexts hide, noise and its growth, modulus
  switching, curve arithmetic; SEAL's multiplication inside PIRANA
  (`tran_to_multiply_mid_form`, `multiply`) and its compression.
* **The rest of iPrivJoin**: hashing, OPRF, OPPRF, the masks of
  `shuffle_sender` and `shuffle_receiver` and the join are sequences of calls into
  volePSI and libOTe, whose behaviour the repository's sources do not determine.
  `server.cpp` runs a substitute of the shuffle by default.
* **Vendored sources**: `src/volepsi` is a fork of a library; `json.hpp`,
  `toml` and `csv` headers are copies. They are most of the repository's lines.
* **Input and output**: `get_newid.h`, the readers, and `file_io.h` but for the
  order of the lines it saves.
* **Single-process variants**: the `psi_to_share` functions in one thread make
  the same calls without streams; the free functions of `batch_pir_protocol.h`
  are measurements.
* **`fake_netio.h`**, a test's helper; **`mpc_lr`**, **`python`**: numerical work.

## 6. Plan

* A direct composition of PolyPir with FeatureLayout and PsiToShare in place of
  `Share1`'s look-up.
