---------------------------- MODULE RustWrappers ----------------------------
(***************************************************************************)
(* What the safe functions of bindings/rust/idax/src make of the answers   *)
(* of the exported functions: one table for each group of functions of a   *)
(* module, in the order of the file.  A wrapper is named by the exported   *)
(* function it calls; one that calls several stands in the table once for  *)
(* each, and is as many calls.                                             *)
(*                                                                         *)
(*   reads      a failure is the wrapper's failure: the error is taken     *)
(*              from the record                                            *)
(*   demands    so is a null string (cstr_to_string, cstr_to_string_free)  *)
(*   never      the answer is all there is: the function cannot fail, or   *)
(*              its failure becomes a default, the end of an iteration or  *)
(*              nothing at all, and the record stays as the call left it   *)
(*                                                                         *)
(* Arguments a wrapper refuses by itself (a NUL in a string) never reach   *)
(* the exported function.                                                  *)
(***************************************************************************)
EXTENDS ShimCalls

Wrapped(prefix, does, names) ==
  {[prefix |-> prefix, does |-> does, name |-> name] : name \in names}

ItemStepWrappers ==
  Wrapped("address", "reads",
    {"item_start", "item_end", "item_size", "next_head", "prev_head",
     "next_not_tail", "prev_not_tail", "next_mapped", "prev_mapped",
     "find_first", "find_next"})

PredicateWrappers ==
  Wrapped("address", "never",
    {"is_mapped", "is_loaded", "is_code", "is_data", "is_unknown", "is_head",
     "is_tail"})

AnalysisWrappers ==
  Wrapped("analysis", "never", {"is_enabled", "is_idle"}) \cup
  Wrapped("analysis", "reads",
    {"set_enabled", "wait", "wait_range", "schedule", "schedule_range",
     "schedule_code", "schedule_function", "schedule_reanalysis",
     "schedule_reanalysis_range", "cancel", "revert_decisions"})

CommentWrappers ==
  Wrapped("comment", "reads",
    {"get", "set", "append", "remove", "add_anterior", "add_posterior",
     "get_anterior", "get_posterior", "set_anterior", "set_posterior"})

CommentLinesWrappers ==
  Wrapped("comment", "reads",
    {"clear_anterior", "clear_posterior", "remove_anterior_line",
     "remove_posterior_line", "set_anterior_lines", "set_posterior_lines",
     "anterior_lines", "posterior_lines"}) \cup
  Wrapped("comment", "demands", {"render"})

DataReadWrappers ==
  Wrapped("data", "reads",
    {"read_byte", "read_word", "read_dword", "read_qword", "read_bytes",
     "read_typed", "write_byte", "write_word", "write_dword", "write_qword",
     "write_bytes", "write_typed"}) \cup
  Wrapped("data", "demands", {"read_string"})

DataPatchWrappers ==
  Wrapped("data", "reads",
    {"patch_byte", "patch_word", "patch_dword", "patch_qword", "patch_bytes",
     "revert_patch", "revert_patches", "original_byte", "original_word",
     "original_dword", "original_qword"})

DefineWrappers ==
  Wrapped("data", "reads",
    {"define_byte", "define_word", "define_dword", "define_qword",
     "define_oword", "define_tbyte", "define_float", "define_double",
     "define_string", "define_struct", "undefine", "find_binary_pattern"})

DatabaseFileWrappers ==
  Wrapped("database", "reads",
    {"init", "open", "open_binary", "open_non_binary", "save", "close",
     "file_to_database", "memory_to_database"}) \cup
  Wrapped("database", "demands",
    {"input_file_path", "idb_path", "file_type_name", "loader_format_name",
     "input_md5"})

CompilerInfoWrappers ==
  Wrapped("database", "reads", {"compiler_info", "import_modules"})

AddressSpanWrappers ==
  Wrapped("database", "reads",
    {"image_base", "min_address", "max_address", "address_span",
     "processor_id", "address_bitness", "set_address_bitness", "is_big_endian"}) \cup
  Wrapped("database", "demands", {"processor_name", "abi_name"})

SnapshotWrappers ==
  Wrapped("database", "reads",
    {"snapshots", "set_snapshot_description", "is_snapshot_database"})

ProcessWrappers ==
  Wrapped("debugger", "reads",
    {"available_backends", "current_backend", "load_backend", "start",
     "request_start", "attach", "request_attach", "detach", "terminate",
     "suspend", "resume", "step_into", "step_over", "step_out", "run_to"})

RegisterValueWrappers ==
  Wrapped("debugger", "reads",
    {"state", "instruction_pointer", "stack_pointer", "register_value",
     "set_register", "add_breakpoint", "remove_breakpoint", "has_breakpoint",
     "read_memory", "write_memory"})

RequestWrappers ==
  Wrapped("debugger", "never", {"is_request_running"}) \cup
  Wrapped("debugger", "reads",
    {"run_requests", "request_suspend", "request_resume", "request_step_into",
     "request_step_over", "request_step_out", "request_run_to", "thread_count",
     "thread_id_at", "current_thread_id"}) \cup
  Wrapped("debugger", "demands", {"thread_name_at"})

ThreadWrappers ==
  Wrapped("debugger", "reads",
    {"threads", "select_thread", "request_select_thread", "suspend_thread",
     "request_suspend_thread", "resume_thread", "request_resume_thread",
     "register_info", "is_integer_register", "is_floating_register",
     "is_custom_register"})

AppcallWrappers ==
  Wrapped("debugger", "reads",
    {"appcall", "cleanup_appcall", "register_executor", "unregister_executor",
     "appcall_with_executor"}) \cup
  Wrapped("type", "reads", {"clone"})

DebuggerEventWrappers ==
  Wrapped("debugger_on", "reads",
    {"process_started", "process_exited", "process_suspended",
     "breakpoint_hit", "trace", "exception"})

ThreadEventWrappers ==
  Wrapped("debugger_on", "reads", {"thread_started"}) \cup
  Wrapped("debugger", "reads",
    {"on_thread_exited", "on_library_loaded", "on_library_unloaded",
     "on_breakpoint_changed", "unsubscribe"})

MicrocodeContextWrappers ==
  Wrapped("decompiler", "reads",
    {"microcode_context_address", "microcode_context_instruction_type",
     "microcode_context_block_instruction_count",
     "microcode_context_has_instruction_at_index",
     "microcode_context_instruction", "microcode_context_instruction_at_index",
     "microcode_context_has_last_emitted_instruction",
     "microcode_context_last_emitted_instruction"})

PseudocodeWrappers ==
  Wrapped("lvar_snapshot", "reads", {"empty", "saved_variable_count"}) \cup
  Wrapped("decompiled", "demands",
    {"pseudocode", "microcode", "declaration"}) \cup
  Wrapped("decompiled", "reads",
    {"lines", "raw_lines", "set_raw_line", "header_line_count",
     "variable_count", "variables", "variable"})

VariableWrappers ==
  Wrapped("decompiled", "reads",
    {"rename_variable", "capture_user_lvar_settings",
     "restore_user_lvar_settings", "set_variable_comment_by_name",
     "set_variable_comment_by_index", "set_comment", "save_comments",
     "entry_address", "line_to_address"}) \cup
  Wrapped("decompiled", "demands", {"get_comment"})

VisitWrappers ==
  Wrapped("decompiler", "reads", {"for_each_expression", "for_each_item"})

SessionWrappers ==
  Wrapped("decompiler", "reads",
    {"available", "session_valid", "session_close", "initialize", "decompile",
     "mark_dirty", "mark_dirty_with_callers", "view_from_host",
     "view_for_function", "current_view"})

PseudocodeLineWrappers ==
  Wrapped("decompiler", "reads",
    {"raw_pseudocode_lines", "set_pseudocode_line",
     "pseudocode_header_line_count", "item_at_position"}) \cup
  Wrapped("decompiler", "demands", {"item_type_name"})

DecompilerEventWrappers ==
  Wrapped("decompiler", "reads",
    {"on_maturity_changed", "on_func_printed", "on_refresh_pseudocode",
     "on_curpos_changed", "on_create_hint", "on_populating_popup",
     "unsubscribe"})

MicrocodeFilterWrappers ==
  Wrapped("decompiler", "reads",
    {"register_microcode_filter", "unregister_microcode_filter"})

DiagnosticsWrappers ==
  Wrapped("diagnostics", "reads", {"set_log_level"}) \cup
  Wrapped("diagnostics", "never",
    {"log_level", "log", "reset_performance_counters", "performance_counters"})

EntryWrappers ==
  Wrapped("entry", "reads",
    {"count", "add", "rename", "set_forwarder", "clear_forwarder"}) \cup
  Wrapped("entry", "demands", {"by_index", "by_ordinal", "forwarder"})

SegmentEventWrappers ==
  Wrapped("event", "reads",
    {"subscribe", "on_segment_added", "on_segment_deleted",
     "on_function_added", "on_function_deleted"})

RenameEventWrappers ==
  Wrapped("event", "reads",
    {"on_renamed", "on_byte_patched", "on_comment_changed", "on_event",
     "on_event_filtered", "unsubscribe"})

FixupWrappers ==
  Wrapped("fixup", "reads",
    {"at", "in_range", "register_custom", "unregister_custom", "find_custom",
     "remove", "first", "next", "prev"}) \cup
  Wrapped("fixup", "never", {"exists", "contains"})

FixupIteration ==
  Wrapped("fixup", "never", {"next", "first"})

FunctionWrappers ==
  Wrapped("function", "reads",
    {"create", "remove", "at", "by_index", "count", "set_start", "set_end",
     "update", "reanalyze", "is_outlined", "set_outlined", "set_comment"}) \cup
  Wrapped("function", "demands", {"name_at", "comment"})

CallerWrappers ==
  Wrapped("function", "reads",
    {"callers", "callees", "chunks", "chunk_count", "add_tail", "remove_tail",
     "frame"})

FrameWrappers ==
  Wrapped("function", "reads",
    {"sp_delta_at", "frame_variable_by_name", "frame_variable_by_offset",
     "define_stack_variable", "set_prototype", "apply_decl",
     "add_register_variable"})

RegisterVariableWrappers ==
  Wrapped("function", "reads",
    {"find_register_variable", "remove_register_variable",
     "rename_register_variable", "has_register_variables",
     "register_variables", "item_addresses", "code_addresses"})

GraphNodeWrappers ==
  Wrapped("graph", "never",
    {"create", "add_node", "total_node_count", "visible_node_count",
     "node_exists", "path_exists"}) \cup
  Wrapped("graph", "reads",
    {"remove_node", "add_edge", "add_edge_with_info", "remove_edge",
     "replace_edge", "successors", "predecessors", "visible_nodes", "edges"})

GroupWrappers ==
  Wrapped("graph", "reads",
    {"create_group", "delete_group", "set_group_expanded", "group_members",
     "set_layout", "redo_layout", "clear"}) \cup
  Wrapped("graph", "never", {"is_group", "is_collapsed", "current_layout"})

GraphViewerWrappers ==
  Wrapped("graph", "reads",
    {"show_graph", "refresh_graph", "has_graph_viewer",
     "is_graph_viewer_visible", "activate_graph_viewer", "close_graph_viewer"})

FlowchartWrappers ==
  Wrapped("graph", "reads", {"flowchart", "flowchart_for_ranges"})

OperandFormatWrappers ==
  Wrapped("instruction", "reads",
    {"decode", "create", "text", "set_operand_hex", "set_operand_decimal",
     "set_operand_octal", "set_operand_binary", "set_operand_character",
     "set_operand_float", "set_operand_format", "set_operand_offset",
     "set_operand_struct_offset_by_name", "set_operand_struct_offset_by_id",
     "set_operand_based_struct_offset"})

OperandTextWrappers ==
  Wrapped("instruction", "reads",
    {"operand_struct_offset_path", "set_operand_stack_variable",
     "clear_operand_representation", "set_forced_operand",
     "get_forced_operand", "operand_text", "operand_byte_width",
     "operand_register_name", "operand_register_category",
     "toggle_operand_sign", "toggle_operand_negate"}) \cup
  Wrapped("instruction", "demands", {"operand_struct_offset_path_names"})

CodeRefWrappers ==
  Wrapped("instruction", "reads",
    {"code_refs_from", "data_refs_from", "call_targets", "jump_targets",
     "next", "prev"}) \cup
  Wrapped("instruction", "never",
    {"has_fall_through", "is_call", "is_return", "is_jump",
     "is_conditional_jump"})

LinesWrappers ==
  Wrapped("lines", "never",
    {"tag_remove", "tag_advance", "tag_strlen", "make_addr_tag",
     "decode_addr_tag"})

InputFileWrappers ==
  Wrapped("loader", "reads",
    {"decode_load_flags", "encode_load_flags", "input_size", "input_tell",
     "input_seek", "input_read_bytes", "input_read_bytes_at"}) \cup
  Wrapped("loader", "demands", {"input_read_string", "input_filename"})

FileToDatabaseWrappers ==
  Wrapped("loader", "reads",
    {"file_to_database", "memory_to_database", "set_processor",
     "create_filename_comment"}) \cup
  Wrapped("loader", "never", {"abort_load"})

LuminaWrappers ==
  Wrapped("lumina", "reads",
    {"has_connection", "close_connection", "close_all_connections", "pull",
     "push"})

NameWrappers ==
  Wrapped("name", "reads",
    {"set", "force_set", "remove", "resolve", "all_user_defined"}) \cup
  Wrapped("name", "demands", {"get", "demangled"})

NamePropertyWrappers ==
  Wrapped("name", "never",
    {"is_public", "is_weak", "is_user_defined", "is_auto_generated"}) \cup
  Wrapped("name", "reads",
    {"is_valid_identifier", "set_public", "set_weak"}) \cup
  Wrapped("name", "demands", {"sanitize_identifier"})

PathWrappers ==
  Wrapped("path", "demands", {"basename", "dirname"}) \cup
  Wrapped("path", "reads", {"is_directory"})

ActionWrappers ==
  Wrapped("plugin", "reads", {"register_action", "register_action_ex"})

AttachWrappers ==
  Wrapped("plugin", "reads",
    {"unregister_action", "attach_to_menu", "attach_to_toolbar",
     "attach_to_popup", "detach_from_menu", "detach_from_toolbar",
     "detach_from_popup"}) \cup
  Wrapped("plugin_action_context", "reads",
    {"widget_host", "decompiler_view_host"})

SearchWrappers ==
  Wrapped("search", "reads",
    {"text", "immediate", "binary_pattern", "next_code", "next_data",
     "next_unknown", "next_error", "next_defined"})

SegmentWrappers ==
  Wrapped("segment", "reads",
    {"create", "remove", "at", "by_name", "by_index", "count", "set_name",
     "set_class", "set_type", "set_permissions", "set_bitness",
     "set_default_segment_register", "set_default_segment_register_for_all"})

SegmentCommentWrappers ==
  Wrapped("segment", "demands", {"comment"}) \cup
  Wrapped("segment", "reads",
    {"set_comment", "resize", "move", "next", "prev"})

StorageValueWrappers ==
  Wrapped("storage_node", "reads",
    {"open", "open_by_id", "id", "alt_get", "alt_set", "alt_remove", "sup_get",
     "sup_set"}) \cup
  Wrapped("storage_node", "demands", {"name"})

StorageBlobWrappers ==
  Wrapped("storage_node", "demands", {"hash_get", "blob_string"}) \cup
  Wrapped("storage_node", "reads",
    {"hash_set", "blob_size", "blob_get", "blob_set", "blob_remove"})

TypeFactoryWrappers ==
  Wrapped("type", "never",
    {"void", "int8", "int16", "int32", "int64", "uint8", "uint16", "uint32",
     "uint64", "float32", "float64", "pointer_to", "array_of", "create_struct",
     "create_union"}) \cup
  Wrapped("type", "reads",
    {"function_type", "enum_type", "from_declaration", "by_name"})

TypeQueryWrappers ==
  Wrapped("type", "never",
    {"is_void", "is_integer", "is_floating_point", "is_pointer", "is_array",
     "is_function", "is_struct", "is_union", "is_enum", "is_typedef"}) \cup
  Wrapped("type", "reads",
    {"size", "pointee_type", "array_element_type", "array_length",
     "resolve_typedef", "function_return_type"}) \cup
  Wrapped("type", "demands", {"to_string"})

TypeMemberWrappers ==
  Wrapped("type", "reads",
    {"function_argument_types", "calling_convention", "is_variadic_function",
     "enum_members", "member_count", "members", "member_by_name",
     "member_by_offset", "add_member"})

TypeApplyWrappers ==
  Wrapped("type", "reads",
    {"apply", "save_as", "clone", "retrieve", "retrieve_operand", "remove",
     "load_library", "unload_library"})

TypeLibraryWrappers ==
  Wrapped("type", "reads",
    {"local_type_count", "import", "apply_named", "parse_declarations"}) \cup
  Wrapped("type", "demands", {"local_type_name"})

DialogWrappers ==
  Wrapped("ui", "never",
    {"message", "warning", "info", "wait_box_dismiss"}) \cup
  Wrapped("ui", "reads",
    {"ask_yn", "ask_string", "ask_file", "ask_address", "ask_long", "ask_form",
     "wait_box_create", "wait_box_update", "wait_box_cancelled",
     "wait_box_active"})

FormWrappers ==
  Wrapped("ui", "reads", {"ask_text", "ask_form_sval_bitset"}) \cup
  Wrapped("ui_ask", "reads", {"form_sval_path_bitset", "form_path_bitset"})

PathFormWrappers ==
  Wrapped("ui_ask", "reads",
    {"form_radio_sval_path_bitset", "form_three_svals_path_two_bitsets"})

ClipboardWrappers ==
  Wrapped("ui", "reads",
    {"copy_to_clipboard", "read_clipboard", "jump_to", "screen_address",
     "selection"}) \cup
  Wrapped("ui", "never", {"clipboard_backend"})

WidgetWrappers ==
  Wrapped("ui", "reads",
    {"widget_title", "widget_id", "create_widget", "show_widget_ex",
     "activate_widget", "close_widget", "widget_host"}) \cup
  Wrapped("ui", "never",
    {"widget_type", "find_widget", "is_widget_visible"})

ViewerWrappers ==
  Wrapped("ui", "reads",
    {"create_custom_viewer", "set_custom_viewer_lines",
     "custom_viewer_line_count", "custom_viewer_jump_to_line",
     "custom_viewer_current_line", "refresh_custom_viewer",
     "close_custom_viewer"})

TimerWrappers ==
  Wrapped("ui", "reads",
    {"register_timer_with_callback", "register_timer", "unregister_timer"}) \cup
  Wrapped("ui", "never", {"rendering_event_add_entry"})

UiEventWrappers ==
  Wrapped("ui", "reads", {"subscribe"}) \cup
  Wrapped("ui_on", "reads",
    {"database_closed", "database_inited", "ready_to_run", "screen_ea_changed",
     "current_widget_changed", "widget_visible", "widget_invisible",
     "widget_closing", "widget_visible_for_widget",
     "widget_invisible_for_widget", "widget_closing_for_widget"})

ViewEventWrappers ==
  Wrapped("ui_on", "reads",
    {"cursor_changed", "view_activated", "view_deactivated", "view_created",
     "view_closed", "event", "event_filtered"})

RenderingWrappers ==
  Wrapped("ui", "reads",
    {"on_popup_ready", "attach_dynamic_action", "on_rendering_info",
     "unsubscribe", "user_directory"}) \cup
  Wrapped("ui", "never", {"refresh_all_views"})

XrefWrappers ==
  Wrapped("xref", "reads",
    {"add_code", "add_data", "remove_code", "remove_data", "refs_from",
     "refs_to", "code_refs_from", "code_refs_to", "data_refs_from",
     "data_refs_to"})

RangeXrefWrappers ==
  Wrapped("xref", "reads",
    {"refs_from_range", "refs_to_range", "code_refs_from_range",
     "code_refs_to_range", "data_refs_from_range", "data_refs_to_range"})

-----------------------------------------------------------------------------
WrapperTable ==
  UNION {ItemStepWrappers, PredicateWrappers, AnalysisWrappers,
         CommentWrappers, CommentLinesWrappers, DataReadWrappers,
         DataPatchWrappers, DefineWrappers, DatabaseFileWrappers,
         CompilerInfoWrappers, AddressSpanWrappers, SnapshotWrappers,
         ProcessWrappers, RegisterValueWrappers, RequestWrappers,
         ThreadWrappers, AppcallWrappers, DebuggerEventWrappers,
         ThreadEventWrappers, MicrocodeContextWrappers, PseudocodeWrappers,
         VariableWrappers, VisitWrappers, SessionWrappers,
         PseudocodeLineWrappers, DecompilerEventWrappers,
         MicrocodeFilterWrappers, DiagnosticsWrappers, EntryWrappers,
         SegmentEventWrappers, RenameEventWrappers, FixupWrappers,
         FixupIteration, FunctionWrappers, CallerWrappers, FrameWrappers,
         RegisterVariableWrappers, GraphNodeWrappers, GroupWrappers,
         GraphViewerWrappers, FlowchartWrappers, OperandFormatWrappers,
         OperandTextWrappers, CodeRefWrappers, LinesWrappers,
         InputFileWrappers, FileToDatabaseWrappers, LuminaWrappers,
         NameWrappers, NamePropertyWrappers, PathWrappers, ActionWrappers,
         AttachWrappers, SearchWrappers, SegmentWrappers,
         SegmentCommentWrappers, StorageValueWrappers, StorageBlobWrappers,
         TypeFactoryWrappers, TypeQueryWrappers, TypeMemberWrappers,
         TypeApplyWrappers, TypeLibraryWrappers, DialogWrappers, FormWrappers,
         PathFormWrappers, ClipboardWrappers, WidgetWrappers, ViewerWrappers,
         TimerWrappers, UiEventWrappers, ViewEventWrappers, RenderingWrappers,
         XrefWrappers, RangeXrefWrappers}

IsCallOf(c, w) == c.prefix = w.prefix /\ c.name = w.name

(* Every wrapper calls a function the shim exports. *)
ASSUME WrappersCallExported ==
  \A w \in WrapperTable : \E c \in ExportedCalls : IsCallOf(c, w)

(* All that tells one call of a wrapper from another: what the exported    *)
(* function can do to the record, and what the wrapper makes of it.        *)
CallKind(w) ==
  [traits |-> (CHOOSE c \in ExportedCalls : IsCallOf(c, w)).traits, does |-> w.does]
CallKinds == {CallKind(w) : w \in WrapperTable}
=============================================================================
