----------------------------- MODULE MCVulkanHost -----------------------------
(* Two weight tensors of different shapes, workgroups of two lanes; four      *)
(* calls: one that opens the device, one that keeps something (a table, an    *)
(* upload, a cache), and two that use it or drop the device.  The kernels     *)
(* without a guard for surplus lanes get row counts that fill their           *)
(* workgroups, as the models' do.                                             *)
EXTENDS VulkanHost, TLC

TensorShape == ("wa" :> [ne0 |-> 1, rows |-> 4]) @@ ("wb" :> [ne0 |-> 3, rows |-> 2])

GpuCall(fn, n, rows, cols, base, t) ==
  [fn |-> fn, n |-> n, rows |-> rows, cols |-> cols, base |-> base, tensor |-> t]
Sized(fn, ns) == {GpuCall(fn, n, 0, 0, 0, "wa") : n \in ns}

OpenCalls == Sized("open", {0}) \cup Sized("enable_gpu", {0})
DropCalls == Sized("drop", {0})
KeepingCalls ==
  Sized("upload_kv_params", {1, 3})
  \cup {GpuCall("upload", n, 0, 0, 0, "wb") : n \in {1, 2, 3}}
  \cup {GpuCall("read_dev", n, 0, 0, 0, t) : n \in {2, 3}, t \in Tensors}
  \cup {GpuCall("prep_matvec_cache", n, 2, 0, 0, "wa") : n \in {1, 3}}
  \cup {GpuCall("load", 0, 0, 0, 0, t) : t \in Tensors}
  \cup {GpuCall("matvec_bench", 2, 4, iters, 0, "wa") : iters \in {0, 2}}
ProductCalls ==
  {GpuCall("matvec_on", 0, 2, 0, base, "wa") : base \in {0, 2}}
  \cup {GpuCall("matvec_on", 0, 2, 0, 0, "wb"), GpuCall("matvec_on", 0, 4, 0, 0, "wa")}
KernelCalls ==
  Sized("rms_norm", {0, 2}) \cup Sized("softmax_row", {0, 2})
  \cup {GpuCall("pq2_matvec", 3, 2, 0, 1, "wa"), GpuCall("matvec_bench_atom", 3, 1, 2, 1, "wa"),
        GpuCall("matvec_batch_n", 3, 3, 2, 1, "wa"), GpuCall("matvec_batch_n", 1, 3, 1, 0, "wa"),
        GpuCall("attn_step", 2, 2, 0, 0, "wa")}
  \cup {GpuCall("elem", n, 0, k, 0, "wa") : n \in {0, 3}, k \in {1, 2}}
  \cup {GpuCall("norm_rows", n, 2, k, 0, "wa") : n \in {3, 4}, k \in {1, 2}}
  \cup {GpuCall("rope_imrope", n, 2, 0, 0, "wa") : n \in {3, 4}}
  \cup {GpuCall("gdn_step", n, 2, 3, 0, "wa") : n \in {2, 3}}
GpuCalls ==
  <<OpenCalls,
    OpenCalls \cup KeepingCalls \cup ProductCalls
      \cup {GpuCall("elem", 2, 0, 2, 0, "wa"), GpuCall("matvec_batch_n", 1, 3, 1, 0, "wa")},
    DropCalls \cup KeepingCalls \cup ProductCalls \cup KernelCalls,
    DropCalls \cup {GpuCall("matvec_on", 0, 4, 0, 0, "wa"), GpuCall("matvec_on", 0, 2, 0, 2, "wa")}>>
=============================================================================
