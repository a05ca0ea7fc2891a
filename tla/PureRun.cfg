SPECIFICATION Spec
INVARIANTS SamplerFollowsPolicy TextFollowsPipeline FilesConsistent CommandSizesCache TensorsAgree KernelsAgree
CHECK_DEADLOCK FALSE
