------------------------------- MODULE MCPaging -------------------------------
(* Two tables to a directory, of one entry more than the heap has frames. Of 16
   frames the kernel takes five: room for two tasks, or a task and a process, or, with
   a page allocated in between, for a task_new or a load that runs out at any request.
   A process takes two and its stack four, which may be the last ones and memory
   behind them. *)
EXTENDS Processes

MCPool == 1..16
MCBinarySizes == {0, 3}
===============================================================================
