------------------------- MODULE CorrelatorPipeline -------------------------
(***************************************************************************)
(* What Correlator.PhaseCorrelate puts on the queue of a Vulkan device     *)
(* (registration/correlate.go, gpu.go, fft.go and the shaders), and the    *)
(* composition of phaseCorrelateCPU, the reference for it                  *)
(* (correlate_cpu.go, peak.go).                                            *)
(*                                                                         *)
(* Arithmetic is symbolic: a term names the function that a kernel applies *)
(* to the contents it reads, with the parameter words it reads.  A kernel  *)
(* and its counterpart in correlate_cpu.go bear one name, and -cos x is    *)
(* the cosine of x + 180 degrees.  So the order of the stages, the buffers *)
(* and parameters they really see and the places of the results are        *)
(* compared, and floating-point accuracy is not.                           *)
(***************************************************************************)
EXTENDS RecordedCommands, Integers, FiniteSets

CONSTANTS
    WorkgroupSize,      \* threads of a workgroup (64 in the code)
    PeakWorkgroups      \* peakWorkgroups (64)

ASSUME WorkgroupAssumption == WorkgroupSize \in Nat \ {0} /\ PeakWorkgroups \in Nat \ {0}

----------------------------------------------------------------------------
\* Buffers, in the order in which they are created.
Rgba(i)     == <<"rgba", i>>
Complex(i)  == <<"complex", i>>
Mag(i)      == <<"mag", i>>
LogPol(i)   == <<"logPol", i>>
CrossPow    == <<"crossPow">>
PeakScratch == <<"peakScratch">>
Result      == <<"result">>
Params      == <<"params">>

BufferOrder ==
    << Rgba("A"), Rgba("B"), Complex("A"), Complex("B"), Mag("A"), Mag("B"),
       LogPol("A"), LogPol("B"), CrossPow, PeakScratch, Result, Params >>

\* A kernel with its binding set: the buffers at its read bindings before the
\* parameters, and the one buffer it changes.
Pipeline(kernel, reads, writes) == [kernel |-> kernel, reads |-> reads, writes |-> writes]

GrayPad(i)       == Pipeline("grayscale_pad", <<Rgba(i)>>, Complex(i))
Warp             == Pipeline("bilinear_warp_gray", <<Rgba("A"), Result>>, Complex("A"))
Bitrev(d)        == Pipeline("fft_bitrev", << >>, d)
Butterfly(d)     == Pipeline("fft_butterfly", << >>, d)
Magnitude(i)     == Pipeline("magnitude", <<Complex(i)>>, Mag(i))
Fftshift(i)      == Pipeline("fftshift", << >>, Mag(i))
Highpass(i)      == Pipeline("highpass", << >>, Mag(i))
LogPolar(i)      == Pipeline("logpolar", <<Mag(i)>>, LogPol(i))
Crosspower(a, b) == Pipeline("crosspower", <<a, b>>, CrossPow)
PeakFind         == Pipeline("peak_find", <<CrossPow>>, PeakScratch)
PeakReduce       == Pipeline("peak_reduce", <<PeakScratch>>, Result)
PeakFinal        == Pipeline("peak_finalize", <<CrossPow>>, Result)

PipelineOrder ==
    << GrayPad("A"), GrayPad("B"), Warp,
       Bitrev(Complex("A")), Butterfly(Complex("A")), Bitrev(Complex("B")), Butterfly(Complex("B")),
       Magnitude("A"), Magnitude("B"), Fftshift("A"), Fftshift("B"), Highpass("A"), Highpass("B"),
       LogPolar("A"), LogPolar("B"),
       Bitrev(LogPol("A")), Butterfly(LogPol("A")), Bitrev(LogPol("B")), Butterfly(LogPol("B")),
       Bitrev(CrossPow), Butterfly(CrossPow),
       Crosspower(LogPol("A"), LogPol("B")), Crosspower(Complex("A"), Complex("B")),
       PeakFind, PeakReduce, PeakFinal >>

\* Every kernel but peak_reduce reads the parameters.
ReadBuffers(p)  == Range(p.reads) \cup (IF p.kernel = "peak_reduce" THEN {} ELSE {Params})
BoundBuffers(p) == ReadBuffers(p) \cup {p.writes}

----------------------------------------------------------------------------
\* The methods of gpuRecorder, with what they are called with.
Upload(i)         == [op |-> "upload", buffer |-> Rgba(i)]
Update(words)     == [op |-> "update", words |-> words]
Launch(p, groups) == [op |-> "launch", pipeline |-> p, groups |-> groups]    \* Bind, Dispatch
Barrier(bs)       == [op |-> "barrier", buffers |-> bs]
Download          == [op |-> "download", buffer |-> Result]

Smaller(a, b) == IF a < b THEN a ELSE b

MaxHalvings == 30       \* bound: padded sizes are at most 2^30
Log2(n) == Cardinality({k \in 1..MaxHalvings : 2^k <= n})

NextPow2(n) ==
    FoldLeft(LAMBDA p, k : IF p < n THEN 2 * p ELSE p, 1, [k \in 1..MaxHalvings |-> k])

Groups(threads) == (threads + WorkgroupSize - 1) \div WorkgroupSize

\* A launch that keeps the parameters of the one before it, and one with its own.
Stage(p, threads)            == << Launch(p, Groups(threads)), Barrier({p.writes}) >>
StageWith(words, p, threads) == << Update(words) >> \o Stage(p, threads)

RecordFFT1D(d, n, lines, axis, stride, inverse) ==
    StageWith(<<n, lines, Log2(n), axis, stride>>, Bitrev(d), n * lines)
    \o FlattenSeq([s \in 1..Log2(n) |->
           StageWith(<<s - 1, n, lines, axis, stride, inverse>>, Butterfly(d), (n \div 2) * lines)])

RecordFFT2D(d, w, h, inverse) ==
    RecordFFT1D(d, w, h, 0, w, inverse) \o RecordFFT1D(d, h, w, 1, w, inverse)

\* The parameters of the shaders; log(maxRadius) is a function of the crop size.
GrayPadParams(size, pad)        == <<size.w, size.h, size.w, pad, Smaller(size.w, size.h)>>
WarpParams(size, pad, slot)     == Append(GrayPadParams(size, pad), slot)
LogPolarParams(size, pad)       == <<pad, pad, pad, pad, Smaller(size.w, size.h)>>
PeakParams(pad, mode, slot, radius) == <<pad, pad, mode, slot, radius>>

\* Mutant: the result is finalised without a barrier behind the scan.
FindPeakUnordered(params) ==
    << Update(params), Launch(PeakFind, PeakWorkgroups), Launch(PeakReduce, 1),
       Barrier({PeakScratch, Result}), Launch(PeakFinal, 1) >>

FindPeak(params) ==
    << Update(params), Launch(PeakFind, PeakWorkgroups), Barrier({PeakScratch}),
       Launch(PeakReduce, 1), Barrier({PeakScratch, Result}), Launch(PeakFinal, 1) >>

\* Phase 1: rotation and scale.
RecordRotation(size, pad) ==
    LET n == pad * pad
    IN  << StageWith(GrayPadParams(size, pad), GrayPad("A"), n),
           StageWith(GrayPadParams(size, pad), GrayPad("B"), n),
           RecordFFT2D(Complex("A"), pad, pad, 0), RecordFFT2D(Complex("B"), pad, pad, 0),
           StageWith(<<n>>, Magnitude("A"), n), Stage(Magnitude("B"), n),
           StageWith(<<pad, pad>>, Fftshift("A"), n \div 2), Stage(Fftshift("B"), n \div 2),
           Stage(Highpass("A"), n), Stage(Highpass("B"), n),
           StageWith(LogPolarParams(size, pad), LogPolar("A"), n), Stage(LogPolar("B"), n),
           RecordFFT2D(LogPol("A"), pad, pad, 0), RecordFFT2D(LogPol("B"), pad, pad, 0),
           StageWith(<<n, 1>>, Crosspower(LogPol("A"), LogPol("B")), n),
           RecordFFT2D(CrossPow, pad, pad, 1),
           FindPeak(PeakParams(pad, 0, 0, Smaller(size.w, size.h))) >>

\* Mutant: complexB is taken for the image's, which phase 1 overwrote.
KeepComplexB(size, pad) == << >>

FreshComplexB(size, pad) == StageWith(GrayPadParams(size, pad), GrayPad("B"), pad * pad)

\* Phase 2: the translation after a turn by the angle, or by the angle and 180 degrees.
RecordTranslation(size, pad, slot, offset) ==
    LET n == pad * pad
    IN  << StageWith(WarpParams(size, pad, slot), Warp, n), FreshComplexB(size, pad),
           RecordFFT2D(Complex("A"), pad, pad, 0), RecordFFT2D(Complex("B"), pad, pad, 0),
           StageWith(<<n, 1>>, Crosspower(Complex("A"), Complex("B")), n),
           RecordFFT2D(CrossPow, pad, pad, 1),
           FindPeak(PeakParams(pad, 1, offset, 0)) >>

\* The calls of PhaseCorrelate, part by part.
Parts(size, pad) ==
    << <<Upload("A"), Upload("B")>> >>
    \o RecordRotation(size, pad) \o << <<Barrier({Result})>> >>
    \o RecordTranslation(size, pad, 0, 8) \o << <<Barrier({Result})>> >>
    \o RecordTranslation(size, pad, 1, 12)
    \o << <<Download>> >>

Schedule(size, pad) == FlattenSeq(Parts(size, pad))

\* The effect of all calls.  The set makes TLC finish a part before the next, so that
\* its stack need not hold a whole schedule.
FoldParts(Do(_, _), start, parts) ==
    FoldLeft(LAMBDA done, part : CHOOSE x \in {FoldLeft(Do, d, part) : d \in {done}} : TRUE,
             start, parts)

----------------------------------------------------------------------------
\* The device commands of a call, and the launches and copies that may overlap.
CommandsOf(c, i) ==
    CASE c.op = "upload"   -> UploadBuffer(c.buffer)
      [] c.op = "update"   -> UpdateBuffer(Params)
      [] c.op = "launch"   -> DispatchKernel(ReadBuffers(c.pipeline), {c.pipeline.writes})
      [] c.op = "barrier"  -> ComputeBarrier(c.buffers)
      [] c.op = "download" -> DownloadBuffer(c.buffer, i)

RunCall(q, c) ==
    [run |-> RunCommand(q.run, CommandsOf(c, q.place), q.place), place |-> q.place + 1]

Races(parts) == FoldParts(RunCall, [run |-> NothingRun, place |-> 1], parts).run.races

----------------------------------------------------------------------------
\* What the buffers contain.  The result is a sequence of slots (from 0 in the code).
Term(f, of, words) == [f |-> f, of |-> of, words |-> words]
Undefined == Term("undefined", << >>, << >>)
Pixels(image, size) == Term(image, << >>, <<size.w, size.h>>)

ResultSlots == 16
Slot(result, i) == result[i + 1]
WriteSlots(result, first, terms) ==
    [i \in DOMAIN result |-> IF i - 1 \in first..(first + Len(terms) - 1)
                             THEN terms[i - first] ELSE result[i]]

NewBuffers ==
    [b \in Range(BufferOrder) |->
        CASE b = Result -> [i \in 1..ResultSlots |-> Undefined]
          [] b = Params -> [i \in 1..8 |-> 0]
          [] OTHER      -> Undefined]

\* The parameter words that a shader reads: the fields of the Params it declares
\* (at the head of every shaders/*.wgsl, of fft_butterfly.wgsl for one).
ParamWords(kernel) ==
    CASE kernel = "magnitude"                             -> 1
      [] kernel \in {"fftshift", "highpass", "crosspower", "peak_find"} -> 2
      [] kernel \in {"bilinear_warp_gray", "fft_butterfly"} -> 6
      [] OTHER                                            -> 5

\* The threads that have something to do: in the others main returns early, in every shader
\* by the comparison that fft_butterfly.wgsl makes with its own total.
Threads(kernel, words) ==
    CASE kernel \in {"grayscale_pad", "bilinear_warp_gray"} -> words[4] * words[4]
      [] kernel = "fft_bitrev"                 -> words[1] * words[2]
      [] kernel = "fft_butterfly"              -> (words[2] \div 2) * words[3]
      [] kernel \in {"magnitude", "crosspower"} -> words[1]
      [] kernel = "fftshift"                   -> (words[1] * words[2]) \div 2
      [] kernel = "highpass"                   -> words[1] * words[2]
      [] kernel = "logpolar"                   -> words[3] * words[4]
      [] OTHER                                 -> 1

\* The parabola through a peak of a surface and its neighbours (peak_finalize.wgsl,
\* findPeakCPU), and the turn and scale that a log-polar peak stands for.
Refined(axis, surface, magnitude, place, words) == Term(axis, <<surface, magnitude, place>>, words)
Confidence(magnitude, n) == Term("confidence", <<magnitude>>, <<n>>)
Angle(peakY, height)     == Term("angle", <<peakY>>, <<height>>)
Scale(peakX, width, radius) == Term("scale", <<peakX>>, <<width, radius>>)
Cos(angle, plus)         == Term("cos", <<angle>>, <<plus>>)
Sin(angle, plus)         == Term("sin", <<angle>>, <<plus>>)
Minus(x)                 == Term("minus", <<x>>, << >>)

\* peak_reduce.wgsl.  The names stand for the numbers of findPeakCPU as well, which breaks
\* a tie by the order of the rows, and the shaders by that of the threads: of equal maxima
\* they may take different ones, and that is not told apart here.
Reduced(result, scratch) ==
    WriteSlots(WriteSlots(result, 11, <<Term("peak_magnitude", <<scratch>>, << >>)>>),
               15, <<Term("peak_place", <<scratch>>, << >>)>>)

\* peak_finalize.wgsl, whose parameters are width, height, mode, offset, log(maxRadius).
Finalized(result, surface, words) ==
    LET dims == SubSeq(words, 1, 2)
        x == Refined("peak_x", surface, Slot(result, 11), Slot(result, 15), dims)
        y == Refined("peak_y", surface, Slot(result, 11), Slot(result, 15), dims)
        confidence == Confidence(Slot(result, 11), words[1] * words[2])
        angle == Angle(y, words[2])
    IN  IF words[3] = 0
        THEN WriteSlots(result, 0, <<confidence, y, angle, Scale(x, words[1], words[5]),
                                     Cos(angle, 0), Sin(angle, 0), Cos(angle, 180), Sin(angle, 180)>>)
        ELSE WriteSlots(result, words[4], <<Minus(x), Minus(y), confidence>>)

\* A launch computes the function of its shader, main, of what that reads, if it has the
\* threads for it.  Only bilinear_warp_gray.wgsl reads slots of the result.
Launched(mem, p, groups) ==
    LET words == SubSeq(mem[Params], 1, ParamWords(p.kernel))
        old   == mem[p.writes]
        inputs == CASE p.kernel = "bilinear_warp_gray" ->
                           <<mem[Rgba("A")], Slot(mem[Result], 4 + 2 * words[6]),
                             Slot(mem[Result], 5 + 2 * words[6]), Slot(mem[Result], 3)>>
                    [] p.reads = << >> -> <<old>>
                    [] OTHER -> [k \in DOMAIN p.reads |-> mem[p.reads[k]]]
        enough == IF p.kernel = "peak_find" THEN groups = PeakWorkgroups
                  ELSE groups * WorkgroupSize >= Threads(p.kernel, words)
        new == CASE p.kernel = "peak_reduce"   -> Reduced(old, inputs[1])
                 [] p.kernel = "peak_finalize" -> Finalized(old, inputs[1], words)
                 [] p.kernel = "bilinear_warp_gray" -> Term(p.kernel, inputs, SubSeq(words, 1, 5))
                 [] OTHER                      -> Term(p.kernel, inputs, words)
    IN  [mem EXCEPT ![p.writes] = IF enough THEN new ELSE Undefined]

\* The calls of a schedule in order, on images of a size.
Perform(mem, c, images, size) ==
    CASE c.op = "upload" ->
             [mem EXCEPT ![c.buffer] = Pixels(IF c.buffer = Rgba("A") THEN images[1] ELSE images[2], size)]
      [] c.op = "update" ->
             [mem EXCEPT ![Params] = [i \in DOMAIN @ |-> IF i \in DOMAIN c.words THEN c.words[i] ELSE @[i]]]
      [] c.op = "launch" -> Launched(mem, c.pipeline, c.groups)
      [] OTHER -> mem

Execute(mem, images, size, pad) ==
    FoldParts(LAMBDA m, c : Perform(m, c, images, size), mem, Parts(size, pad))

\* The numbers PhaseCorrelate takes from the downloaded result.
Answer(result) ==
    [rotation |-> Slot(result, 0), angle |-> Slot(result, 2), scale |-> Slot(result, 3),
     first  |-> [tx |-> Slot(result, 8), ty |-> Slot(result, 9), confidence |-> Slot(result, 10)],
     second |-> [tx |-> Slot(result, 12), ty |-> Slot(result, 13), confidence |-> Slot(result, 14)]]

----------------------------------------------------------------------------
\* phaseCorrelateCPU and its helpers.
FFT1DCPU(values, n, lines, axis, stride, inverse) ==
    FoldLeft(LAMBDA v, s : Term("fft_butterfly", <<v>>, <<s - 1, n, lines, axis, stride, inverse>>),
             Term("fft_bitrev", <<values>>, <<n, lines, Log2(n), axis, stride>>),
             [s \in 1..Log2(n) |-> s])

FFT2DCPU(values, w, h, inverse) ==
    FFT1DCPU(FFT1DCPU(values, w, h, 0, w, inverse), h, w, 1, w, inverse)

\* The inverse FFT of the code divides by w * h, which only the confidence depends on.
PhaseCorrelationCPU(a, b, w, h) ==
    LET surface == FFT2DCPU(Term("crosspower", <<FFT2DCPU(a, w, h, 0), FFT2DCPU(b, w, h, 0)>>,
                                 <<w * h, 1>>), w, h, 1)
        scan == Term("peak_find", <<surface>>, <<w, h>>)
        peak == <<Term("peak_magnitude", <<scan>>, << >>), Term("peak_place", <<scan>>, << >>)>>
    IN  [x |-> Refined("peak_x", surface, peak[1], peak[2], <<w, h>>),
         y |-> Refined("peak_y", surface, peak[1], peak[2], <<w, h>>),
         confidence |-> Confidence(peak[1], w * h)]

GrayCropPadCPU(pixels, size, pad) ==
    Term("grayscale_pad", <<pixels>>, <<size.w, size.h, size.w, pad, Smaller(size.w, size.h)>>)

MagnitudeSpectrumCPU(gray, w, h) ==
    LET magnitude == Term("magnitude", <<FFT2DCPU(gray, w, h, 0)>>, <<w * h>>)
    IN  Term("highpass", <<Term("fftshift", <<magnitude>>, <<w, h>>)>>, <<w, h>>)

LogPolarCPU(source, w, h, crop) == Term("logpolar", <<source>>, <<w, h, w, h, crop>>)

\* bilinearWarp, packRGBA and grayCropPadCPU
WarpCPU(pixels, angle, plus, scale, size, pad) ==
    Term("bilinear_warp_gray", <<pixels, Cos(angle, plus), Sin(angle, plus), scale>>,
         <<size.w, size.h, size.w, pad, Smaller(size.w, size.h)>>)

PhaseCorrelateCPU(images, size, pad) ==
    LET crop == Smaller(size.w, size.h)
        pixels == [k \in 1..2 |-> Pixels(images[k], size)]
        gray   == [k \in 1..2 |-> GrayCropPadCPU(pixels[k], size, pad)]
        lp     == [k \in 1..2 |-> LogPolarCPU(MagnitudeSpectrumCPU(gray[k], pad, pad), pad, pad, crop)]
        rotation == PhaseCorrelationCPU(lp[1], lp[2], pad, pad)
        angle == Angle(rotation.y, pad)
        scale == Scale(rotation.x, pad, crop)
        tried(plus) == LET p == PhaseCorrelationCPU(WarpCPU(pixels[1], angle, plus, scale, size, pad),
                                                    gray[2], pad, pad)
                       IN  [tx |-> Minus(p.x), ty |-> Minus(p.y), confidence |-> p.confidence]
    IN  [rotation |-> rotation.confidence, angle |-> angle, scale |-> scale,
         first |-> tried(0), second |-> tried(180)]

=============================================================================
