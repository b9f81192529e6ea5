# Verification of OpenVision

TLA+ models of the stateful parts of OpenVision, model-checked with TLC, and theorems
about them proved with TLAPS. OpenVision is mostly numeric image processing; what a
model checker and a prover can say something about is the code that keeps state between
calls, runs concurrently, reads and writes files, or works through data in an order that
matters. That code is listed here first, then what is modelled, what each run shows, and
what is proved.

## 1. Inventory

**Thread pool** (`ImgUtils/threadpool.cpp`, `threadpool.h`). State: a linked queue of
work (`queue_head`, `queue_tail`, `cur_queue_size`, `max_queue_size`), the counter
`num_threads_working`, the public flags `queue_closed` and `shutdown`, one mutex and two
condition variables, the array of threads. Operations: `init`, `tpool_add_work`,
`tpool_full_check`, the worker loop `tpool_thread`, `tpool_cleanup` (cancels the workers
until none is left), `tpool_destroyEx`, the respawn counter. Everything but the two flags
is touched under `queue_lock`. Hard: conditional broadcasts (a wakeup is sent only when
the size leaves 0 or leaves the maximum), cancellation in `pthread_cond_wait` and in the
handlers, failure after the lock was taken, destruction while threads are inside. Correct
when: the three descriptions of the queue agree, no wakeup is lost, each item has one
handler, items start in the order in which they were added, `tpool_cleanup` returns when,
and only when, the workers are gone, and what is freed is not used.

**Frame rings** (`ImgFeatures/opticalflow.hpp`, `denseof.*`, `temporalDerivative.hpp`,
`TemporalFilter.*`, `Fast3D.*`, `Harris3D.*`, `ImgVO/imgvo.h`). State: a vector of the last frames
used as a ring, an index, a start flag; in `ImgVo` also the features of each frame. Operation: one
call per frame, and `Fast3D::reset`. Hard: every class wraps its offsets by hand, reads windows of
several frames at computed offsets, and decides by the index whether it has seen enough frames.
Correct when: each offset reaches the frame it is meant to reach, no empty slot is used, the frame
reported is the one the result is about, `ImgVo` draws points in pairs, also after a call that
raised half-way.

**Corner selection** (`ImgFeatures/FeatureDetector.*`, `GoodFeatureToTrack.cpp`, `Fast.cpp`,
`HarrisCorner.cpp`). State: the settings, the member `corners` that a run fills anew, its
count. Hard: a greedy choice over sorted candidates with ties and a limit, in two versions.
Correct when: the corners are apart and nothing better was passed over.

**Mean shift tracker** (`ImgProc/meanshift.*`). State: a window, its centre, a histogram.
Hard: half sizes rounded down, clamps at four borders, a loop ended by a bound. Correct when:
the window stays inside the image and on what it follows.

**Edge detector** (`ImgProc/edgedetector.*`). State during `canny`: the gradient image,
two thresholded images, the label image, a stack. Hard: a flood fill that labels a pixel
when it leaves the stack, one label image for all pairs of thresholds. Correct when: what
is labelled is what can be reached from the seeds, and the tracing ends.

**Gesture store** (`ImgApp/UniStrokeGestureRecognizer.*`, `ImgUtils/ImgUtils.cpp`).
State: a directory of named directories of numbered `.csv` and `.bmp` files. Operations:
`save` (in several steps on the file system), `loadTemplates`. Hard: a crash or a failed
write between two steps; names derived from a count. Correct when: a save never touches a
stored template and a picture shows the points beside it.

**Gesture application** (`samples/Android/AndroidGesture`: `OpenVisionGestureA`,
`CreateGestureActivity`, the JNI glue). State: two screens, the adapter's lines and
pictures, a background task, its posted messages. Interacts with the store through
`addGesture` (native, on the user interface thread) and by reading the directory. Hard:
tasks replaced, cancelled and outlived; pictures and lines that travel by different ways;
activities recreated; saves during a load. Correct when: every gesture is listed once with
its own picture, the finished list is complete, Done never runs without a gesture.

**Settings and their clients** (`ImgConfig/ConfigLib/lib`: `libconfig.c`, `libconfigcpp.c++`,
and `contrib/copy_setting.c`). The library through which the classifiers read their models,
kept and built in the repository. State: a tree of settings with parents, names, chunked lists
and unions; the C++ objects hooked to them; options. Hard: lists that grow by chunks and shrink
by hand, a destructor hook that has to survive re-initialisation, paths that contain indices,
numbers converted between two widths and floating point. Correct when: tree, wrappers, paths and numbers agree
after any calls.

**Configuration reader** (`grammar.c`, `scanner.c`, `scanctx.*`, `strbuf.c` there). State: the
parser's stack and, beside it, the setting under construction; the scanner's buffers; the stack
of included files. Interacts with the tree by adding settings as it reads. Hard: refills in the
middle of a match, switches of buffers, errors several files deep. Correct when: the scanner
cuts the texts as if they were one stream, what was written is read back, and nothing is left
open.

**Training** (`ImgML/PyVision/Optimizer.py`, `MLPHiddenLayer.py`, `LogisticRegression.py`,
`ImgML/LogisticRegression.py`). State: the loops' counters, the slice handed out, best error and
patience, the model, a pickle file. Calls go both ways: the optimizer calls the classifier, which
keeps a counter of its own in the callback. Hard: two counts of the same slices, errors of two
different steps, a file truncated before it is written. Correct when: every slice is learnt in
turn, the best is what was measured, a load gives the last complete save or raises.

**Random ferns** (`ImgFeatures/randomferns.*`). State: counts and shares of all ferns in flat
tables. Hard: lessons for one patch move what others see; a second start makes codes longer and not the
tables. Correct when: teaching comes to an end.

**Markov models** (`ImgML/hmm.*`, `markovchain.*`, `gaussianmixture.*`, `gaussian.cpp`,
`eigenutils.hpp`). State: parameters, matrices that several operations share, a position for
step-by-step use. Correct when: answers are the likelihoods they stand for, whatever was called
in between, and a generated chain is one the model gives a probability to.

**Convolution and pixel filters** (`ImgBasis/polybasis.hpp`, `ImgProc` and their like). State of the
polynomial expansion: the kernels collected by `computeFilters`, the matrix of the basis, what was
projected last. Hard: two passes that fold a kernel on its middle by its symmetries, crossed between rows
and columns; a second set-up on top of the first. Correct when: the folded passes give the weighted sums
over the window, and the polynomial that is there is found.

**Descriptors** (`ImgFeatures/lbpfeatures.*`, `HOG.cpp`). State: look-up tables, labels, a ring of three
frames, binned gradients, histograms. Hard: blocks and windows at the borders, flat indices, a table
shorter than the codes, a ring whose turn decides which frame is the middle. Correct when: a label is that
of the pixels, blocks or frames that are there, and every gradient is counted in the windows it lies in.

**Histograms and contrast** (`ImgProc/Histogram.*`, `ContrastStretching.*`,
`adaptiveskindetector.*`). State: a histogram object that lives through calls, the size of the first
image. Correct when: the ends of the stretched range are those of the image.

**Logger** (`ImgUtils/logger.*`), **geometry**, **experiments and demos**, **other vendored code**
(Felzenszwalb's image classes, libconfig's Ruby binding and test harness): not modelled, with
the reasons in section 6.

No component of the repository calls the thread pool: its callers are modelled from its
interface. The settings are used by the Markov models' `loadConf`; otherwise the components meet
only in programs that use several of them.

## 2. Plan and state

| # | modules | runs | proofs |
|---|---------|------|--------|
| 1 | `ThreadPool`, `WorkQueue` (what it promises), `PoolLifecycle` (the pool with its creation and destruction), `MCThreadPool` | `pool_safety`, `pool_liveness`, `pool_lifecycle`, `destroy_backlog`, `cancelled_sleeper` | `ThreadPoolProofs` |
| 2 | `FrameRings`, `CornerSelection`, `MeanShift`, `PolynomialExpansion`, `BinaryPatterns`, `OrientedGradients`, `ContrastStretching`, composed by `MCVision` | `vision` | `VisionProofs` |
| 3 | `EdgeDetector`, `MCEdgeDetector` | `edge_tracing` | `EdgeDetectorProofs` |
| 4 | `GestureStore`, `GestureApp` (the store with its users) | `gesture_app` | `GestureProofs` |
| 5 | `Settings` (operators on the tree), `ConfigClients` (C and C++ calls), `ConfigReader` (writer, scanner's files and parser), with MC modules | `config_clients`, `config_reader` | `SettingsProofs` (lemmas about the tree), `ConfigProofs` (its users and its reader) |
| 6 | `TokenStream` (what the scanner promises), `ScanBuffers`, `MCScanBuffers` | `scan_buffers` | `ScanBuffersProofs` |
| 7 | `Training`, `RandomFerns`, `SequenceClassifier`, `DiscreteHMM`, `MarkovChain`, composed by `MCLearning` | `learning` | `LearningProofs` |

The plan is done: what the runs check and no theorem states is listed at the end of section 5, with the reason.

## 3. The modules and the code

**ThreadPool.** A step is everything between a lock and the unlock or wait after it, since
the fields are only touched under `queue_lock`; `pc` says where a thread stands (listed at
the head of the module). `Worker(w)` is `tpool_thread`: `TestCancel`, `WaitForWork`,
`CancelWait` (cancelled in the wait; the mutex is owned again), `LeaveOnShutdown`,
`TakeWork`, `HandlerReturns`, `CancelHandler`, `FinishWork`. `Client(c)` is
`tpool_add_work` (`CallAddWork`, `Relock`, `RefuseFull`, `WaitForRoom`, `RefuseClosed`,
`AllocFails`, `Enqueue`) and `tpool_full_check`. `CancelNext` and `EndRound` are the two
loops of `tpool_cleanup`. Every item has a `node` state, from new to freed.
- `cleanup_handler` is a member function called through a pointer of another type, so its
  argument is indeterminate: a mutex the worker owns is unlocked or stays locked
  (`HandlerOutcomes`).
- A wait may return spuriously. `AllocFails` stands for an allocation that fails, whether it
  shows as a null pointer or as an exception: either way the function is left there.
- External: who calls the pool; the flags `shutdown` and `queue_closed`, which are public and
  which nothing in the pool sets; `pthread_kill`, assumed to report a thread that has exited
  (with a C library that returns 0 for such a thread `tpool_cleanup` never ends: that is the
  variant `CancelNextCountsAll`).

**WorkQueue** is what the pool promises: a first-in first-out queue with a bound whose items
are started and completed at most once. `ThreadPool!ImplementsWorkQueue` maps the linked list
to its queue and the `node` states to its sets.

**PoolLifecycle** adds `init` (workers run before it returns, and it may fail),
`tpool_destroyEx` node by node, and the respawn counter.

**FrameRings.** A behaviour follows one object of one of seven classes. Frames are numbered;
0 is an empty `Mat`. An action is one call; `used` is the sequence of frames the call computes
with, in the order of the code, and `shown` the frame it reports. Two facts of the code are
visible in the model without being properties: `temporalDerivative` never sets its flag, so it
never filters; `Temporal_Filter` reads its window as newest, oldest, middle.
`ImgVo::run` is three actions, by what the frame before has. `ImgVo_begin` is the first frame.
`ImgVo_raise` is a frame after one without features: `calcOpticalFlowPyrLK` raises on no points
(`imgvo.h:118`), when the frame and its features are stored and the index has not moved.
`ImgVo_match` tracks, then computes the rotation (`said`): `estimateRigidTransform` raises on no
points, and may find no transform for some, whose row is then read through a null pointer
(lines 159-160), which ends the process. Since features are taken from the first frame only and then
tracked, `ImgVo` does not recover from a call that raised. Modelled from OpenCV's interface: those two
functions. No code of the repository calls `run`; with the other methods of rotation it computes
nothing and lacks its return, which is left out.

**EdgeDetector.** `Start`, `Scan`, `Fill`, `Finish` are `canny`'s loop over the pairs of
thresholds, the scan of `connectedComponent`, one turn of `stackfill`, the copy of the labels.
The image is a constant set of functions from pixels to magnitudes. The scan stops one row and
one column before the region that `check_color` admits; `Seeds` says so.

**GestureStore** has the steps of `save`: `BeginSave` (directory and count), `OpenCsv`,
`WriteCsv`, `GenerateBitmap` (reads the points back and dereferences the first), `FinishBitmap`.
Contents are the serial numbers of gestures, `Cut` a file not written to its end. With an
empty name the files go to the root itself, where the list does not look. Assumed: only this
process writes, nothing deletes templates (after a deletion the count may be the number of a
file that exists), and the file system reports the types of directory entries.

**GestureApp** has both activities, the task and the process. `Background` is
`doInBackground`, `Message` the handlers of what it posts, `User` what the user and the system
do to the screens, `Start` a start of the process, after a kill at any moment if it still ran.
AsyncTask is external, modelled from its use: tasks run one after the other; a cancelled
task that has not begun does not run, one that runs is not stopped but posts nothing more; what
it posted before is still delivered; its result goes to `onCancelled`. `stopped` says of which
null or missing thing the process died. A picture that is not written to its end may or may
not decode.

**CornerSelection.** A response image is a function from pixels to numbers; how it comes about is
the detectors' arithmetic. `runDetector` is `run` up to the loop of `filter_corners`,
`FilterCorner` one candidate of it, `Return` its end and that of `run`. `Candidates` cuts the
image into whole cells: what is left at the right and below holds no candidate but counts for the
level. `Fast` returns a list of its own that hides the member, so that its caller gets nothing.
`corner_count` is set by one of the two filters only.

**MeanShift.** A likelihood image is its set of bright pixels. `buildModel` does not keep the
histogram it builds (`BuildHistogram` keeps one only when it accumulates), so that `run` raises
until a client gives the public histogram object one (`setHist`). `Turn` is one turn of the loop,
`Returns` its three ends. A window may be as wide or high as the image. A whole-length side that is even is
moved to -1 (`meanshift.cpp:70-77`, where both borders push it), and taking the part of the likelihood in such
a window raises in the next turn (`Raises`).

**PolynomialExpansion**, **BinaryPatterns**, **OrientedGradients** and **ContrastStretching** are the
classes with integers for their floating-point numbers. `computeFilters` appends six kernels for each call,
`clearKernel` empties the lists, `filterApply` makes the two passes for all of them, `cfilterApply` raises
unless there are six channels. `BinaryPatterns` has the table of uniform codes, `compute` and
`computeBlock`, and the ring of `LBPTOP`; what is read past the table or the image is any value.
`OrientedGradients` begins at the polar form of the gradients: `Dominant` chooses one of three channels (its
maximum is not brought up to date in between), twelve bins, nine windows that overlap by half.
`ContrastStretching` keeps the shape of its first image.

**Settings** has the tree as a heap, a function from addresses to records, and every operation of
`libconfig.c` as an operator on heaps, with the C code's early returns as `Can...` guards.
A number is an integer of an `int`'s or a `long long`'s range (`IntMax`, `LongMax`), or, in a FLOAT, a number of
halves, so that there are fractions; floats and doubles have mantissas of their own (`FloatExact`,
`DoubleExact`), to which a conversion rounds (`Rounded`). A fraction that becomes an integer is cut off; a number
out of the integer's range gives any value of the type, which is what C leaves undefined (`Cut`). Signs are there,
and the least integer. A string is its length.
**ConfigClients** has the calls as actions, through C or through C++ (`api`). A C++ object is made
when its setting is first reached, which many calls do on their way; a call that throws reaches the
ancestors for its message. `ReadEmptyFile` and `Renew` are a read of an empty file and the
re-initialisation. `CCopy` is `config_setting_copy`: the settings below the original without those
that the setters refuse to copy (`Sifted`), at addresses the allocator chooses (`Places`). Which free
addresses it chooses makes no difference to a property, so one choice is followed. Copying an array
whose integers the setters refuse hands a null pointer to `config_setting_set_format`
(`copy_setting.c:45`): the program of the model does not do it.

**ConfigReader.** `Build`, `WriteFile` and `OtherFile` make a text, either what `config_write` wrote
of some configuration or tokens made up as they are needed. Settings of every type are written, in decimal and
hexadecimal, with the suffix of an INT64; a FLOAT loses the digits beyond `%.10g` (`Printed`, `libconfig.c:216`),
which `PrintExact` stands for. An infinity or a NaN, which is written as text that no rule reads as a number, is
not tried. `Scan...` are the scanner as the
parser sees it, with the stack of files of `scanctx.c`; `Parse...` are the parser's actions with
`ctx->parent`, `ctx->setting` and `ctx->string`, the automaton's tables being a state (what it
expects) and the open aggregates. `EndRead` is the rest of `__config_read`, `Abort` an error. Memory is
bounded by the number of settings: a token that adds one is scanned only while there is room for it (`RoomFor`),
and that this never stops the reading of what was written is part of `WhatIsWrittenIsReadBack`.

**TokenStream** is what the scanner promises: a stack of texts cut into longest matches.
**ScanBuffers** is how it does it: buffers with `n_chars` and a position kept twice, `Fill`
(`yy_get_next_buffer`: move, grow, read any number of characters), `EndOfString`, `EndOfInput` (pop
an include or end), `Act...` the rules. One step is one inner loop of the automaton. Abstracted: the
DFA's tables; characters are of a few kinds, one of them the blank; an `@include` directive is one
symbol; comments, and directives in pieces, are left out; there are no NUL characters in a text. The
start condition is not reset at the end of a file: a string that is open there continues in the
including file, in both modules.

**Training** has three classifiers, two under `Optimizer.run` and one with a loop of its own.
`Epoch` and `Batch` are the loops, `Learn...` the classifier's `learn`, `Validate` the callback with
its slice by a count of its own, `Judge` the best error and the patience, `OpenForSave`, `Dump` and
`CloseSaved` the pickle file part by part, `Load...` its reading. Parameters are the sequence of
slices they were learnt from, so that "the same model" is a matter of equality. What the model
shows of the code without a property: the patience never grows, since the best error is replaced
before it is compared (`Optimizer.py:158`); `done_looping` is never set, so that all epochs are run;
the samples beyond the last whole slice are never learnt; the regression's errors are of the step
before. A perceptron with hidden layers raises at its first `learn`, in the forward pass, before any layer has
moved: `sigmoid_stable` compares an array (`MLPHiddenLayer.py:35`). It never loads, either: the
file that comes with the code, `MLP.pyvision1`, has the marks of a merge conflict in its hidden layer
(lines 59-63), so that `GivenFile` ends before it, and a model without hidden layers, which can be trained and
saved, cannot be loaded (line 426). A save of it empties the file first all the same.

**RandomFerns** has the tables, with shares as fractions, and the teacher's step `LearnPatch`; what
codes a patch has is arbitrary. `StartAgain` is `readFromFile` of a file that is not there: `init`
is called again, clears the tables and appends its points to those it has (`randomferns.cpp:74`), so
that codes have twice the bits (26 in the code, over tables of 2^13). Ferns then meet in the cells
of those after them (`Meeting`), or leave the tables (`UseBeyond`, after which nothing is claimed).
The toggle of the points is an integer, so that all of them fall into one quadrant
(`randomferns.cpp:83`); a confidence of exactly one half is accepted by `classify` and not by
`compute`.

**SequenceClassifier** is `CHMMClassifier` with its models and mixtures: `LoadConf` (which appends,
and leaves what it appended when a setting is missing), `ClassifyI` step by step, `Classify` for a
whole sequence. Logarithms of probabilities are the weights themselves, `Odd` is whatever is no such
number: a NaN of `logsumexp`, memory not written, the products of logarithms of the batch
`forwardMatrix` (`hmm.cpp:226-236`), which are all that `classify` answers. **DiscreteHMM** is
`DHMM`. `forwardMatrix` weighs the first symbol twice (`hmm.cpp:71` and 77, while the comment at 55
has it once), and the properties define the weights of paths without the code's matrices and say so.
A column without weight is scaled by an infinite factor: it, and every column of the backward matrix
that is scaled by it, is `NoColumn`. **MarkovChain** is the generator: random numbers are anything
from zero to one, both ends included; its sum starts from `matrix(0,0)` for every row
(`markovchain.cpp:50`, while the comment at 42 speaks of the row), and may pass the last column
(`outside`). The assumptions of the first two give the models' dimensions and say that there are
finitely many states and at least one; a configuration whose settings have other dimensions is not
given to them.

The composing modules `MCVision` and `MCLearning` make a program that uses one object of one class:
the classes share no state, so that their product would show nothing more.

Definitions that are marked as mutants are faulty variants of the definition next to them. No action
uses them; they are there to check that the properties fail when they take its place.

## 4. The runs

| run | asks | distinct states |
|-----|------|--------|
| `pool_safety` | safety and refinement of the pool with everything that can go wrong | 691,000 (up to symmetry) |
| `pool_liveness` | completion, return and shutdown, without cancellation | 77,000 |
| `pool_lifecycle` | creation, cleanup, destruction; `tpool_cleanup` ends | 52,000 |
| `vision` | which frames are used, which corners chosen, where the window goes, what filters and descriptors give | 97,645 |
| `edge_tracing` | what is labelled, termination | 543,195 |
| `gesture_app` | the application and its store | 766,883 |
| `config_clients` | the tree and its users | 406,292 (up to symmetry) |
| `config_reader` | writing and reading, includes, errors | 1,008,446 (up to symmetry) |
| `scan_buffers` | the scanner refines a stream of tokens, and ends | 1,866,230 |
| `learning` | training, ferns and Markov models | 213,907 |
| `destroy_backlog`, `cancelled_sleeper` | what the code's comments say and the code does not do | violations |

**pool_safety** (`ThreadPoolSafety.cfg`): two workers, two clients, three items, queues of one
and two places. Two of a kind give every race between threads of a kind; with a queue of one
place every item makes it full and empty, with two there is a state between, and a third item
makes somebody wait. `QueueMatchesSize`, `NoLostWakeup`, `WorkingCount`, `CleanedUpMeansDead`,
`VouchedIsNotRefused`, `ImplementsWorkQueue`. `WorkingCount` takes the item of a cancelled handler for one that is
worked on; what becomes of it is `LossIsTold`: items are lost only under `tpool_cleanup`, at most one with each
worker that exits, and afterwards `num_threads_working` is the number of items lost.

**pool_liveness** (`ThreadPoolLiveness.cfg`): the same threads and two items; the owner may shut
down or close the queue, does not cancel. `QueuedIsCompleted`, `AddWorkReturns`,
`ShutdownWithBacklogEndsWorkers`. Fairness is strong for each thread: a thread that asks for the
mutex again and again gets it, handlers return; spurious wakeups and calls are not fair. Weak
fairness would not do: a thread that waits for the lock is enabled and disabled in turn as others
take it. A sleeping worker that nobody tells of a shutdown stays asleep: that is why the third
property asks for a backlog.

**pool_lifecycle** (`PoolLifecycle.cfg`): two workers, one client, two items, a queue of two.
`WalkIsUndisturbed`: the list does not change under the walk. `CleanupReturns`: `tpool_cleanup`
ends as long as no cancelled worker kept the lock.

**vision** (`Vision.cfg`). Rings: 22 frames are three turns and more of the largest ring (seven);
the window is then a function of the index alone. `RingIsSound` (every slot holds the frame it
should, what is used are the latest frames, in order, and none is empty; for `Fast3D` under resets
at any time), `TrackingIsPaired` (what `ImgVo` draws are pairs, also after calls that raised, and
once one has raised every later one does). Detectors: three cells of two columns, each with a weak
or a strong pixel on the left, on the right or none, and a margin that may hold the strongest of
all: chains of three near each other, ties, all zero, and responses exactly at the level (`Quality`)
occur; limits of 0, 2 and 3, cells of two and three pixels, and run after run. `CornersAreTheBest`.
Tracker: windows of two to five pixels a side anywhere in 5 by 4 pixels, so that the image's width
and height are among them, and every image of up to two bright ones: centroids in the middle between
two pixels, all four borders, windows that see nothing, and windows that go to and fro until the
bound of 100 turns. `WindowHolds`, which for the object being kept asks for odd sizes: a window of
even size is moved off the last column or row; and lets an even side as long as the image's begin at
-1. Filters and descriptors: two calls of `computeFilters`, blocks of one and of two pixels, two
turns of the ring of three frames, nine windows over 5 by 8 pixels with a column to spare, small
images of two sizes for the contrast. `FeaturesHold` conjoins `ExpansionHolds` (the folded passes
are the weighted sums, the expansion finds the polynomial that is there, also with kernels appended
by a second `computeFilters`), `PatternsHold` (labels tell uniform codes apart and are those of the
pixels, blocks and frames that are there) and `GradientsAreCounted` (every gradient is in as many
histograms as its windows). `ContrastIsStretched`: the order of the pixels of each channel is kept,
the darkest becomes 0, the brightest 255.

**edge_tracing** (`EdgeTracing.cfg`): 5 by 5 pixels, so nine inner ones with three magnitudes
each, and every pixel of the border above all thresholds, so that leaving the interior would
show. The scanned part is 2 by 2, the filled part 3 by 3: seeds, pixels reached only by the fill
and pixels not reached occur together. `TracedIsReachable` (the least closed set around the
seeds, also for the second pair of thresholds), `CannyReturns` under weak fairness: one thread
runs `canny`.

**gesture_app** (`GestureApp.cfg`): two directories with up to one template each, two gestures
saved under one of the names or none, storage that may fail, one recreation of the list, two
starts of the process. Two saves in two lives of the process are what a name that is taken twice
needs; two tasks are what a replaced task needs. `StoreIsSound` (numbers without gaps, pictures of
their own points), `NothingIsOverwritten`, `ListShowsTheStore` (listed once, each line with its
picture, a finished list complete), `DoneHasAGesture`, and `LoadEnds` under weak fairness of the two
threads (they run while they have work; the user need not do anything).

**config_clients** (`ConfigClients.cfg`): the root and up to three more settings, two names and a
bad one, lists that grow by chunks of two, so that a list of three crosses a chunk. An `int` goes to
3, a `long long` to 7, a float's mantissa to 2 and a double's to 5. One number is set, -5, which needs a `long long`, is not exact in a float, and is minus two and a
half as a FLOAT; it gets into an `int` without its fraction, and into a FLOAT without its bits. On every setting
that comes about, `NumbersSurvive` tries all numbers of all types.
`TreeIsSound`, `WrappersMatchSettings`, `PathsLeadHome`, `NumbersSurvive` (a getter gives what the
setter of its kind stored, but for the fraction, the bits or the range that a type does not have,
which the property names; and the getters of one setting agree).

**config_reader** (`ConfigReader.cfg`): configurations of up to three settings of any types below
the root, written in decimal and hexadecimal and read back, with numbers of both signs, among them
fractions that `%.10g` does not print in full, and texts of up to nine tokens with includes two deep
and a file that is missing: every error at every place of every nesting they allow.
`WhatIsWrittenIsReadBack` (with room enough on the way), `ContextFollowsParser`,
`NothingIsLeftOpen`.

**scan_buffers** (`ScanBuffers.cfg`): two files with every text of up to three characters, that may
include each other and themselves two deep, read from a file or a string through buffers of two
characters in reads of any length: every match is cut by a refill at some place, buffers are moved,
grown, and switched with a match behind them. `BuffersHold`, `ImplementsTokenStream`, and `ScanEnds`
under weak fairness of the scanner: its caller, the parser, goes on until the end.

**learning** (`Learning.cfg`). Training: five samples in slices of two leave one over; three epochs,
validation every second step, so that two counts of slices fall apart; a gain above and one below
the threshold of improvement; three processes, so that a save may be interrupted, another one made
and loaded. `LearntInTurn`, `BestIsOnRecord`, `LoadsWhatWasKept`. Ferns: four patches and two ferns
of two codes, any classes, first a forced lesson or a second start; `TeachingSettles` under weak
fairness of the teacher for each patch (the code's users present patches in a loop). Two ferns
cannot tell an exclusive or, which four patches can be, and teaching them never ends: the property
asks for patches that tables can tell apart (`Separable`) and for codes within the tables. Points
added by a second start say yes or no to a patch for both ferns (`LaterBits`), so that ferns share
cells or leave them. Models: two states and two symbols, one file that is good, one without a state,
one too short, one unreadable; sequences one longer than the matrices. `MarkovModelsHold` conjoins
`ModelsAreSound` (answers are the sums over all paths or no number at all, mixtures complete),
`ForwardMeetsBackward` and `GeneratedIsPossible` (for every transition matrix with rows of thirds,
zeros among them, and every random number of thirds from zero to one).

Deadlock is not checked where the system may really stop: a pool whose workers have exited or
sleep, a video that is over, a `canny` that returned, a process that died for the last time
within the bound, a text that was read.

### Findings

- `destroy_backlog`: `tpool_destroyEx` with a backlog skips the head of the list and reads nodes
  it has freed (`threadpool.cpp:254`).
- `cancelled_sleeper`: a worker cancelled in its wait may exit with `queue_lock` held, because the
  cleanup handler does not receive the pool (`threadpool.cpp:459`).

The models have further behaviours that a reader of the code would not expect, without a run of
their own: an allocation that fails in `tpool_add_work` leaves the lock held (`threadpool.cpp:195`);
`DenseOF` moves its index once, so that all flows are computed against the first frame
(`denseof.cpp:295`, while `denseof.hpp:91` speaks of the previous one); `canny` starts its traces
from the lower threshold (`edgedetector.cpp:247`, while `edgedetector.hpp:34` says the higher); an
empty list ends the process, since `mEmpty` is never assigned (`OpenVisionGestureA.java:222`);
saving a perceptron empties the file first, so that a crash loses the earlier model
(`MLPHiddenLayer.py:399`); `Fast` returns no corners (`Fast.cpp:62`); a mean shift tracker has no
model after `buildModel` (`meanshift.cpp:21`); a second `computeFilters` puts its kernels behind
those of the first; the table of uniform patterns has 255 entries for 256 codes, and
`spatialHistogram` always raises; `LBPTOP` loses its third frame; the last three of twelve bins of
`HOG` stay empty; the modified mode of contrast stretching always raises; an array of integers with
another first type cannot be copied (`copy_setting.c:45`); once `ImgVo` has met a frame without
features every call raises (`imgvo.h:118`); a float is written with ten digits (`libconfig.c:216`),
and a number that goes through a FLOAT loses its fraction or its last bits (838-842, 905-909); the
perceptron's model that comes with the code cannot be loaded (`MLP.pyvision1:59`); a second start of
the ferns makes codes that leave the tables (`randomferns.cpp:74`); `classify` multiplies logarithms
(`hmm.cpp:226`); `DHMM` weighs the first symbol twice (`hmm.cpp:77`); a chain's state 0 is drawn
without a weight by a zero, or for the corner of the matrix (`markovchain.cpp:50`).

## 5. What is proved

All theorems hold for every value of the constants, under the named assumptions of the modules they are
about; none assumes anything of the steps. Those of `VisionProofs` are of the classes' own specifications: `MCVision`,
which puts them side by side, reaches `Bitwise`.

| module | theorem | states |
|--------|---------|--------|
| `ThreadPoolProofs` | `PoolInvariant` | `PoolInv` is an invariant |
| | `Typing`, `QueueIsConsistent`, `OneHandler`, `WakeupsReachSleepers`, `WorkingIsCounted`, `CleanupIsComplete` | the invariants of the pool; `OneHandler` (no item in two hands) is not asked of TLC again |
| | `VouchedIsServed` | the action property `VouchedIsNotRefused` |
| | `Implementation` | the pool refines `WorkQueue` |
| | `Life` | `LifeInv`, the pool with its creation and destruction |
| | `LossesAreTold`, `WalkAlone` | `LossIsTold`, the action property `WalkIsUndisturbed` |
| `VisionProofs` | `Rolling`, `RingTypes` | the inductive invariant of the rings, types |
| | `RingSoundness`, `TrackingIsOneWay` | `RingIsSound`, `TrackingIsPaired` |
| | `CornerFilter`, `BestCorners` | the inductive invariant of the selection, `CornersAreTheBest` |
| | `WindowTurns`, `WindowStays` | the inductive invariant of the tracker, `WindowHolds` |
| | `Stretching`, `ContrastStretched` | the inductive invariant of contrast stretching, `ContrastIsStretched` |
| `EdgeDetectorProofs` | `Tracing`, `TracingTypes` | the inductive invariant, types |
| | `Reachability` | `TracedIsReachable` |
| `GestureProofs` | `Storing` | the inductive invariant of the store inside the application |
| | `StoreSoundness`, `NothingOverwritten` | `StoreIsSound`, `NothingIsOverwritten` |
| | `DoneGesture` | `DoneHasAGesture` |
| | `Listing`, `ListShows` | the inductive invariant of the list and its tasks, `ListShowsTheStore` |
| `LearningProofs` | `Keeping`, `LoadsTheLastSave` | the inductive invariant of the model file, `LoadsWhatWasKept` |
| | `Learning`, `BatchesInTurn` | the inductive invariant of the loops, `LearntInTurn` |
| | `Recording`, `BestOnRecord` | the inductive invariant of what was found, `BestIsOnRecord` |
| | `ForwardBackward`, `MatricesMeet` | the inductive invariant of the discrete model, `ForwardMeetsBackward` |
| | `SequencesArePossible` | `GeneratedIsPossible`, by `ChainInv` |
| | `ClassifierIsSound`, `ModelsAnswerRight` | the inductive invariant of the classifier, `ModelsAreSound` |
| | `MarkovModelsAreRight` | `MarkovModelsHold`, of the program with all learners |
| `ScanBuffersProofs` | `Scanning`, `BuffersInBounds` | the inductive invariant, `BuffersHold` |
| | `CutsIntoTokens` | the scanner refines `TokenStream` |
| `ConfigProofs` (lemmas in `SettingsProofs`) | `Configured` | the inductive invariant of tree, numbers and objects |
| | `TreeStaysSound`, `WrappersStayRight`, `NumbersStayRight`, `PathsStayRight` | `TreeIsSound`, `WrappersMatchSettings`, `NumbersSurvive`, `PathsLeadHome` |
| | `ReaderSound` | the inductive invariant of reading |
| | `ContextFollows`, `NothingLeftOpen` | `ContextFollowsParser`, `NothingIsLeftOpen` |

`PoolInv` conjoins `TypeOK`, `HandledByOne`, `QueueMatchesSize` and `NoLostWakeup` with what makes
them inductive:
- `HandsInv`: where a thread stands tells whether it has an item in hand. Without it an item that
  a client offers could already be queued, and enqueuing would repeat it.
- `LockInv`: a thread about to read the size owns the lock. Without it two threads could act on one
  reading of the size, and a broadcast could fall between a test and the wait.
- `SweepInv`: in a round of `tpool_cleanup` that has sent nothing so far, every worker passed was
  dead, and the dead stay dead. This gives `CleanedUpMeansDead`.
- `VouchInv`: while a client is vouched for, the check it was answered by would still say 1. Others
  who add work end the vouching, workers only make room.

`WorkingIsCounted` goes by cardinalities: it is an invariant relative to `PoolInv`, with a lemma for
a set that gains or loses one element. The refinement maps each action to `Submit`, `Start`,
`Complete` or a stutter. The proof has one lemma per action of the pool and one step per part of the
invariant in it.

`LifeInv`: while the pool is being created and used it is the pool of `ThreadPool`, so `PoolInv` holds. Once
`tpool_destroyEx` has the lock for good, `PoolInv` breaks (its nodes are freed), and `WalkInv`, the part of
it that says who may move without the lock, takes over: a worker gets past a cancellation point or
out of its handler and no further, and a client is not inside.

`RingInv`: `SlotsHoldLast` says of each slot which frame it holds as a function of its distance from
the index (`RingIsSound` speaks of distances from the newest only, which storing a frame shifts);
`ClassInv` ties each class's start flag and blocks to the index and the number of frames, without
which "started" would not imply "enough frames"; `LostInv` says that after a call that raised the
slot before the index has no features and the index stands, which is why the next call raises too.
Modular arithmetic is done in three lemmas on plain numbers.

`CornerInv`: in the loop of `filter_corners` (`FilterInv`) those kept are candidates, apart, strongest first,
none weaker than a candidate not yet looked at; and each one passed over is near a kept one at least as
strong. The last part is what the order of the candidates is for. The limit ends the loop early, with the
candidates left no stronger than any kept. A reading of `corners` as a sequence without repetition gives its count.

`ShiftInv`: the window is in the image and around its centre, and a window of odd sizes that has moved sees something
of the object. The pixels a window sees have a mean; the window is moved to the mean rounded, which is no more than
half a pixel away in either direction. That it still sees one of them there is argued by contradiction: all of them
would lie beyond the new window on its far side, in one direction or the other; a weighted sum of the two
coordinates that is bounded for each of them is then too small for their mean. Pushing a window back into the image
loses no pixel, as there are none outside; only an even side as long as the image's is pushed out of it, by one
(`Begins`). The sums over pixels are taken apart by induction on a
set, as a least counterexample.

`StretchInv`: what was returned last is the last image through the table made of it. The rest is about the
table: it never falls, and maps the least value to 0 and the greatest to 255, whatever the divisions round off.

`TraceInv`: what is labelled or on the stack is in every closed set around the seeds
(`NothingTooMuch`), the neighbours of a labelled pixel that continue a trace are labelled or on the
stack (`LabelsAreSurrounded`), and the seeds the scan has passed are too (`SeedsAreTraced`). When the
stack is empty and the scan over, the labels are then the least closed set.

`StoreInv`: every directory is filled up to some number and not beyond (`Gapless`); a picture
has its points (`PicturesHavePoints`); and `SaveInv` says what a save under way finds at its number:
nothing before it opens the file, then an unfinished file of points, then points without a picture.
It stays true because one thread saves at a time.

`ListInv`: only the newest task is not cancelled, tasks wait in the order of their making, and a task not
begun has no line (`TaskInv`, `LineInv`); what a task has still to list has no line on the screen or in a
message, and its next number none either (`LoadInv`); every gesture stored when the task began is still to be
listed or has its line before the message that reports success (`SeenInv`). That pictures travel by another way than
their lines does no harm because numbers are not used again. `RoomInv` counts what is still to be
listed: the numbers suffice, which lets `Ids` be a bounded set.

`KeepInv`: the model file is either what the last complete save wrote or a prefix too short to be
loaded (`FileIsKept`), and what a save has written so far is the beginning of the model it is
saving, which is kept once the last part is dumped (`SaveInv`). `LayersInv` adds that a perceptron
that trains has no hidden layers and that a file with one ends before it, so that its loads raise.

`TurnInv`: the slices a model was learnt from go round in turn, and `LoopInv` ties the last of them to
the counters of the loops, for each of the three classifiers by where its program stands; a model that was
kept, loaded or put back is again one learnt in turn (`KeptInv`). `RecordInv` says of the records
that each error belongs to the step it is recorded under (one step earlier for the regression), and of the best
that it is the least of those judged and was first found where the code says (`JudgedTo`); between a record
and its judgement, or its save, the last record is not judged yet.

`HmmInv`: each matrix is that of the model and the sequence it was computed for, as far as that
reaches, and a column is no numbers exactly if the forward weights it is scaled by are all zero.
Each other entry is then the sum of the weights of the paths of states that begin, or end, there: a
column more is a sweep over the paths one state longer, and the sum over all of them is taken apart
by their last state. `ChainInv`: what was generated is a drawing (`Drawings`), and one draw makes a
drawing of a drawing: the number drawn falls between two partial sums of the row, so that the weight
between them is not 0, unless it is the first sum, which is the corner's weight and lets zero
through. `ClassifierInv`: the models and mixtures have the parameters they were loaded with, whole;
and what a model was told since its initial step is in its last column (`Told`), which stands for
the weights of the paths by the state they end in (`StandsFor`), or is no number. In the program
with all learners (`MarkovInv`) a step is one of one of the learners, and leaves the others'
variables alone. Sums over sets and sequences are recursive in the library; that each is what its
recursion says is shown by a least counterexample, and so are the rules for sums that all of this
rests on (one element more, two sums swapped, a factor taken out).

`ScanInv`: the buffers of the open texts are the first ones (`StackInv`), each no fuller than its memory and with
nothing left to read when its end is pending (`BufferInv`); the scanner's copies of position and count
agree with the buffer (`ScannerInv`); and a match that is acted on is the longest one: another
character follows, or none can (`StageInv`). For the refinement, the text still to be read is what is held
behind the position together with the unread stream (`TextsInv`); refills, moves and growth leave it as it is,
and acting on a match removes the token that `TokenStream` would. That a run of
characters has one end, and that doubling a buffer ends with room in it, is shown without induction: by
the least place, or the least number, at which it would fail.

`TreeInv` says that everything hangs from the root in a form that can be kept: every set that holds
the root and the elements of its members holds all live settings (`FamilyInv`); that a list's memory
reaches to its last chunk (`ListsInv`); and that names are there in groups only, and unique
(`NamesInv`). A subtree is the least closed set around its top, by counting the levels of the
definition: a level that adds nothing is closed, and there are no more levels than settings.
Removing a subtree then leaves a tree, and a copy is a tree because its addresses are new and
different (`Places`) and its chunks fit. `WrapInv`: a C++ object has the address of its setting and
the setting's hook leads back to it, so that there is always room for an object where a setting is.
For `PathsLeadHome` the way up from a setting ends at the root, and the way down by the indices on
it comes back. For `NumbersSurvive` the heap's integers fit their widths; the rest follows from what
is known of rounding and cutting (`RoundedIs`, `WholeIs`) by types (`GivesBack`, `GettersAgree`).

`ReaderInv` conjoins three things. The words: what is left of a text are tokens the scanner
recognises (`TextInv`). The files: each level of includes has a buffer of its own and an open
stream, there are no others, and every file name a setting points to is kept (`FilesInv`,
`IncludesInv`); without the buffers' being different, leaving a file could release one that is in
use. The parser: on the way up from `ctx->parent` are exactly the types of the open aggregates
(`Follows`), and a setting that waits for its value is the last one added there and has none yet
(`Pending`); that is what lets an action add to, or leave, an aggregate without asking where it is.
The tree so far is a tree (`TreeInv`), by the lemmas that the clients' proofs use. `ConfigProofs`
extends both modules; the reader's proofs use no assumption of the clients'.

Only model-checked:
- liveness, out of the prover's reach, with the fairness it needs (`QueuedIsCompleted`, `AddWorkReturns`,
  `ShutdownWithBacklogEndsWorkers`, `CleanupReturns`, `CannyReturns`, `LoadEnds`, `ScanEnds`, `TeachingSettles`);
- `WhatIsWrittenIsReadBack`, which compares two texts of any length by recursion over the settings below each other:
  induction over data;
- `FeaturesHold`: the binary patterns shift and mask bits (`Bitwise`, which a module with theorems cannot use), and
  that the expansion finds the polynomial depends on the numbers: the Gaussian's matrix must have an inverse.

## 6. Not modelled

- Pool: handlers that call back into the pool; a cleanup called by a worker; what running workers
  do with a pool that a failed `init` has freed (undefined); logging.
- Vision: all arithmetic on pixels (smoothing, gradients, corner measures, back projection, the
  refinement of corners to fractions of a pixel). `temporalDerivative` never sets its flag and never
  filters; that is in the model.
- Gestures: `loadTemplates` (it has no caller, and appends to a list that it never clears), drawing
  and scaling, two copies of the second screen on the stack, names with a path separator.
- Configuration: the characters of numbers and strings (which digits a number keeps is in the model), infinities
  and NaN, comments, the growth of bison's stack and the
  tables of the generated code, files that change while they are read.
- Learning: floating point, gradients, which pixels ferns compare; writing and reading ferns (their
  loops index beyond the tables).
- Histograms: the threshold search reads behind the last bin before all others (`Histogram.cpp:413`), so
  that no property of a threshold holds; the skin detector computes a second histogram and goes on with
  the thresholds of the first. An image smaller than the first is not given to `ContrastStretching`: it keeps the
  size of the first (line 68) and would leave the image's memory.
- Logger: its state is set once. A missing `else` (`logger.h:210`) makes `EDEBUG` the level `FATAL`,
  which one call shows; what `log` wrote to the file is commented out.
- Descriptors: the gradient itself, and the moments that `calculate_features` computes in a mode that
  nothing sets.
- Pixel filters: noise, colours, line detection: loops over one image without state. Geometry: linear algebra on
  floating-point numbers.
- Demos and experiments, Felzenszwalb's image classes, libconfig's Ruby binding and test harness:
  examples, or code of others that OpenVision does not call.
