-------------------------- MODULE RecordedCommands --------------------------
(***************************************************************************)
(* The device commands and barriers that the methods of Recorder put into  *)
(* a command buffer (recorder.go: Update, Upload, Download, Barrier and    *)
(* Dispatch).                                                              *)
(***************************************************************************)
EXTENDS MemoryDependencies

ShaderAccess == {"shaderRead", "shaderWrite"}

UpdateBuffer(b) ==
    << Dependency({"compute"}, {"transfer"}, ShaderAccess, {"transferWrite"}, {b}),
       Touch("transfer", "transferWrite", b),
       Dependency({"transfer"}, {"compute"}, {"transferWrite"}, ShaderAccess, {b}) >>

\* Mutant: like Update, the copy waits for shaders only.
UploadLikeUpdate(b) == UpdateBuffer(b)

UploadBuffer(b) ==
    << Dependency({"compute", "transfer"}, {"transfer"}, ShaderAccess \cup {"transferWrite"},
                  {"transferWrite"}, {b}),
       Touch("transfer", "transferWrite", b),
       Dependency({"transfer"}, {"compute"}, {"transferWrite"}, ShaderAccess, {b}) >>

\* The transfer memory of the download at place i of the stream.
Staging(i) == <<"staging", i>>

\* Mutant: no barrier on the transfer memory.
DownloadUnflushed(b, i) ==
    << Dependency({"compute", "transfer"}, {"transfer"}, {"shaderWrite", "transferWrite"},
                  {"transferRead"}, {b}),
       Touch("transfer", "transferRead", b),
       Touch("transfer", "transferWrite", Staging(i)) >>

DownloadBuffer(b, i) ==
    << Dependency({"compute", "transfer"}, {"transfer"}, {"shaderWrite", "transferWrite"},
                  {"transferRead"}, {b}),
       Touch("transfer", "transferRead", b),
       Touch("transfer", "transferWrite", Staging(i)),
       Dependency({"transfer"}, {"host"}, {"transferWrite"}, {"hostRead"}, {Staging(i)}) >>

ComputeBarrier(bs) == << Dependency({"compute"}, {"compute"}, ShaderAccess, ShaderAccess, bs) >>

\* A kernel that reads some of its buffers, and reads and changes others.
DispatchKernel(read, changed) ==
    SetToSeq({Touch("compute", "shaderRead", b) : b \in read \cup changed}
             \cup {Touch("compute", "shaderWrite", b) : b \in changed})

=============================================================================
